---- MODULE Spec2Model ----
(***************************************************************************)
(* Work-logging and payroll application (React client over a Supabase      *)
(* store with row-level security).                                         *)
(*                                                                         *)
(*  - Pay calculator: calculateRecordSalary, calculateTotalSalary,         *)
(*    generateSalaryDetails and the summary sheet of exportRecordsToExcel. *)
(*  - Store: tables profiles, work_records, project_presets and            *)
(*    employee_type_settings with their row-level security policies.       *)
(*  - Client: the session of each browser and the add-record flow.         *)
(*                                                                         *)
(* Numbers are the DECIMAL(10,2) quantities of the schema; the model       *)
(* computes with them exactly (as integers).                               *)
(***************************************************************************)
EXTENDS Integers, Sequences, FiniteSets

VARIABLES
    \* ---- pay calculator (src/src/lib/export.ts) ----
    records,            \* the WorkRecord[] handed to the calculator
    calc,               \* "input", "computed" (admin salary view) or "exported"
    totalSalary,        \* result of calculateTotalSalary(records)
    salaryDetails,      \* result of generateSalaryDetails(records)
    recordData,         \* pay column of the detail sheet of exportRecordsToExcel
    summaryData,        \* rows of the summary sheet of exportRecordsToExcel
    \* ---- store (src/supabase/schema.sql) ----
    profiles,           \* table profiles: identity id -> row, or NoRow
    work_records,       \* table work_records: a set of rows
    nextRecordId,       \* ids handed out so far by gen_random_uuid(), plus one
    project_presets,    \* table project_presets: a set of rows
    nextPresetId,
    employee_type_settings, \* table employee_type_settings: a set of rows
    lastOp,             \* the last request the store answered, and its answer
    \* ---- one browser (AuthContext, AddRecordModal) ----
    session,            \* identity of the Supabase client session (auth.uid()), or Anon
    profile,            \* AuthContext state `profile`: a profiles row with its id, or NoRow
    fetching,           \* identities whose fetchProfile request is in flight
    presets,            \* AddRecordModal state `presets`
    employeeSettings,   \* AddRecordModal state `employeeSettings`
    \* ---- the admin page and the edit modal of that browser ----
    selectedRowKeys,    \* Admin state `selectedRowKeys`: ids of the rows ticked
    confirmDialog,      \* the confirm() dialog of handleBatchDelete and the point onOk reached
    editRecordId,       \* EditRecordModal prop `record` (its id), or 0 when null
    editPresets,        \* EditRecordModal state `presets`
    editEmployeeSettings, \* EditRecordModal state `employeeSettings`
    editRequest,        \* the update request EditRecordModal sent since it was opened
    \* ---- identities (auth.users) and the calls of register() in progress ----
    auth_users,         \* table auth.users: identity id -> email, or NoEmail
    user_meta,          \* auth.users.raw_user_meta_data->>'display_name' of each identity
    reg,                \* each call of register(): where it is and what it read
    \* ---- nameToEmail (src/src/lib/supabase.ts) applied to two names ----
    name1, name2,       \* the names handed to nameToEmail
    email1, email2,     \* what it returned, NoEmail before the call
    \* ---- the dashboard (src/src/pages/Dashboard.tsx) and the calendar ----
    today,              \* the current day (CURRENT_DATE, dayjs())
    record_date,        \* column record_date of the work record of each id
    dashRecords,        \* Dashboard state `records`: the ids of the rows it lists
    \* ---- AuthProvider (src/src/contexts/AuthContext.tsx) and the router ----
    user,               \* AuthContext state `user` (its id), or Anon when null
    loading,            \* AuthContext state `loading`
    initialSession,     \* TRUE once the INITIAL_SESSION event was delivered
    safetyTimeout,      \* TRUE while the 5 s timer of the provider is pending
    userIdRef,          \* userIdRef.current
    loader,             \* the run of load() the profile effect started last
    attempts,           \* fetches load() issued since `user` took its value
    location            \* the path the router shows

calcVars == <<records, calc, totalSalary, salaryDetails, recordData, summaryData>>

tableVars == <<profiles, work_records, nextRecordId, project_presets, nextPresetId,
               employee_type_settings>>

clientVars == <<session, profile, fetching, presets, employeeSettings>>

pageVars == <<selectedRowKeys, confirmDialog, editRecordId, editPresets,
              editEmployeeSettings, editRequest>>

regVars == <<auth_users, user_meta, reg>>

emailVars == <<name1, name2, email1, email2>>

dateVars == <<today, record_date, dashRecords>>

authVars == <<user, loading, initialSession, safetyTimeout, userIdRef, loader, attempts,
              location>>

otherVars == <<emailVars, dateVars, authVars>>

vars == <<calcVars, tableVars, lastOp, clientVars, pageVars, regVars, otherVars>>

-----------------------------------------------------------------------------
(* Bounds and input domains *)

MaxRecords == 3

\* project_name is free text compared with ===; "ai" differs from "Ai" by case only
CalcProjectNames == {"Ai", "ai"}
Workloads == {0, 5}
Overtimes == {0, 2}
UnitPrices == {30, 200}
OvertimeRates == {9}

CalcRecords ==
    [project_name : CalcProjectNames, workload : Workloads, overtime : Overtimes,
     unit_price_snapshot : UnitPrices, overtime_rate_snapshot : OvertimeRates]

-----------------------------------------------------------------------------
(* Pay calculator *)

\* xs.reduce((s, x) => s + x, 0): the terms added left to right, starting from 0
RECURSIVE reduceSum(_)
reduceSum(xs) ==
    IF xs = <<>> THEN 0
    ELSE reduceSum(SubSeq(xs, 1, Len(xs) - 1)) + xs[Len(xs)]

\* mutation: the overtime hours are added without their rate
calculateRecordSalary_noRate(record) ==
    record.unit_price_snapshot * record.workload + record.overtime

calculateRecordSalary(record) ==
    LET basePay == record.unit_price_snapshot * record.workload
        overtimePay == record.overtime * record.overtime_rate_snapshot
    IN  basePay + overtimePay

\* mutation: a record equal to an earlier one is not counted again
calculateTotalSalary_dedup(rs) ==
    LET step(sum, record) == sum + calculateRecordSalary(record)
        firstOf(i) == \A j \in 1..(i - 1) : rs[j] # rs[i]
        idx == {i \in 1..Len(rs) : firstOf(i)}
        RECURSIVE upTo(_)
        upTo(n) == IF n = 0 THEN 0
                   ELSE IF n \in idx THEN step(upTo(n - 1), rs[n]) ELSE upTo(n - 1)
    IN  upTo(Len(rs))

calculateTotalSalary(rs) ==
    reduceSum([i \in 1..Len(rs) |-> calculateRecordSalary(rs[i])])

\* keys of the Map `grouped`, in insertion order (first occurrence of each name)
RECURSIVE groupKeys(_)
groupKeys(rs) ==
    IF rs = <<>> THEN <<>>
    ELSE LET before == groupKeys(SubSeq(rs, 1, Len(rs) - 1))
             key == rs[Len(rs)].project_name
         IN  IF \E i \in 1..Len(before) : before[i] = key
             THEN before
             ELSE Append(before, key)

\* mutation: the group key is matched without regard to case
groupRecords_ignoreCase(rs, key) ==
    LET lower(n) == IF n = "Ai" THEN "ai" ELSE n
        hasKey(r) == lower(r.project_name) = lower(key)
    IN  SelectSeq(rs, hasKey)

\* grouped.get(key): the records pushed under key, in input order
groupRecords(rs, key) ==
    LET hasKey(r) == r.project_name = key
    IN  SelectSeq(rs, hasKey)

\* mutation: the group subtotal leaves out the overtime pay
salaryDetail_noOvertimePay(rs, projectName) ==
    LET g == groupRecords(rs, projectName)
        totalWorkload == reduceSum([i \in 1..Len(g) |-> g[i].workload])
        totalOvertime == reduceSum([i \in 1..Len(g) |-> g[i].overtime])
        totalBasePay ==
            reduceSum([i \in 1..Len(g) |-> g[i].unit_price_snapshot * g[i].workload])
        totalOvertimePay ==
            reduceSum([i \in 1..Len(g) |-> g[i].overtime * g[i].overtime_rate_snapshot])
    IN  [projectName |-> projectName,
         recordCount |-> Len(g),
         totalWorkload |-> totalWorkload,
         totalOvertime |-> totalOvertime,
         totalBasePay |-> totalBasePay,
         totalOvertimePay |-> totalOvertimePay,
         totalSalary |-> totalBasePay]

salaryDetail(rs, projectName) ==
    LET g == groupRecords(rs, projectName)
        totalWorkload == reduceSum([i \in 1..Len(g) |-> g[i].workload])
        totalOvertime == reduceSum([i \in 1..Len(g) |-> g[i].overtime])
        totalBasePay ==
            reduceSum([i \in 1..Len(g) |-> g[i].unit_price_snapshot * g[i].workload])
        totalOvertimePay ==
            reduceSum([i \in 1..Len(g) |-> g[i].overtime * g[i].overtime_rate_snapshot])
    IN  [projectName |-> projectName,
         recordCount |-> Len(g),
         totalWorkload |-> totalWorkload,
         totalOvertime |-> totalOvertime,
         totalBasePay |-> totalBasePay,
         totalOvertimePay |-> totalOvertimePay,
         totalSalary |-> totalBasePay + totalOvertimePay]

\* mutation: the Map starts with a group for the empty name
generateSalaryDetails_seeded(rs) ==
    LET keys == IF rs = <<>> THEN <<"">> ELSE groupKeys(rs)
    IN  [i \in 1..Len(keys) |-> [projectName |-> keys[i], recordCount |-> 0,
                                  totalWorkload |-> 0, totalOvertime |-> 0,
                                  totalBasePay |-> 0, totalOvertimePay |-> 0,
                                  totalSalary |-> 0]]

generateSalaryDetails(rs) ==
    LET keys == groupKeys(rs)
    IN  [i \in 1..Len(keys) |-> salaryDetail(rs, keys[i])]

\* the summary sheet: one row per group, then the grand-total row
exportSummaryData(rs) ==
    LET details == generateSalaryDetails(rs)
    IN  Append(details,
               [projectName |-> "TOTAL",
                recordCount |-> Len(rs),
                totalWorkload |-> reduceSum([i \in 1..Len(rs) |-> rs[i].workload]),
                totalOvertime |-> reduceSum([i \in 1..Len(rs) |-> rs[i].overtime]),
                totalBasePay |->
                    reduceSum([i \in 1..Len(details) |-> details[i].totalBasePay]),
                totalOvertimePay |->
                    reduceSum([i \in 1..Len(details) |-> details[i].totalOvertimePay]),
                totalSalary |-> calculateTotalSalary(rs)])

\* Admin page render: salaryDetails and totalSalary of the loaded records
AdminSalaryView ==
    /\ calc = "input"
    /\ calc' = "computed"
    /\ salaryDetails' = generateSalaryDetails(records)
    /\ totalSalary' = calculateTotalSalary(records)
    /\ UNCHANGED <<records, recordData, summaryData>>
    /\ UNCHANGED <<tableVars, lastOp, clientVars, pageVars, regVars, otherVars>>

\* handleExportUserSalary -> exportRecordsToExcel(userRecords)
ExportRecordsToExcel ==
    /\ calc = "computed"
    /\ Len(records) > 0
    /\ calc' = "exported"
    /\ recordData' = [i \in 1..Len(records) |-> calculateRecordSalary(records[i])]
    /\ summaryData' = exportSummaryData(records)
    /\ UNCHANGED <<records, totalSalary, salaryDetails>>
    /\ UNCHANGED <<tableVars, lastOp, clientVars, pageVars, regVars, otherVars>>

-----------------------------------------------------------------------------
(* Store: tables and row-level security (supabase/schema.sql) *)

NumUsers == 2          \* identities that may register
MaxRecordRows == 2     \* work_records rows ever inserted
MaxPresets == 2        \* project_presets rows ever inserted
NumRegistrations == 2  \* calls of register() that may run concurrently
MaxDays == 2           \* days the calendar runs through
MaxNameLen == 2        \* characters of a name handed to nameToEmail

Anon == 0              \* auth.uid() of a request without a signed-in session: NULL
UserIds == 1..NumUsers
RecordIds == 1..MaxRecordRows
PresetIds == 1..MaxPresets
RegIds == 1..NumRegistrations

Roles == {"user", "admin"}
EmployeeTypes == {"regular", "manager"}
\* a name is a sequence of characters; " " is the white space String.trim() strips
WhiteSpace == {" "}
\* the name each identity registers under
DisplayNames == << <<"l">>, <<"w">>, <<"z">>, <<"c">> >>
\* project names of the store, as sequences of characters: two that differ by case,
\* and the attendance project, written '上班' (shang, ban) in the source
ProjectAi == <<"A", "i">>
ProjectAiLower == <<"a", "i">>
AttendanceProject == <<"shang", "ban">>
PresetNames == {ProjectAi, ProjectAiLower}

\* no row (the result of a lookup that finds nothing; `null` in the client)
NoRow == [id |-> Anon, name |-> <<>>, role |-> "", employee_type |-> ""]

\* a call of register() not begun: where the call stands, its argument `name`, the
\* result `existing` of its read, the `user` its browser holds
IdleReg == [pc |-> "idle", name |-> <<>>, existing |-> FALSE, user |-> Anon]

\* the identities that have an account, hence a session token to send
Registered == {u \in UserIds : profiles[u] # NoRow}
Actors == Registered \cup {Anon}

\* mutation: the role is the one the browser holds in its cached profile
is_admin_cached(uid) == uid # Anon /\ profile.id = uid /\ profile.role = "admin"

\* SELECT EXISTS (SELECT 1 FROM profiles WHERE id = auth.uid() AND role = 'admin')
is_admin(uid) ==
    \E u \in UserIds : profiles[u] # NoRow /\ profiles[u].id = uid /\ profiles[u].role = "admin"

\* mutation: the owner alone may update the row
profiles_update_ownerOnly(uid, row) == uid = row.id

\* POLICY profiles_update FOR UPDATE USING (auth.uid() = id OR is_admin())
profiles_update(uid, row) == uid = row.id \/ is_admin(uid)

\* mutation: the check compares nothing (WITH CHECK (true))
records_insert_own_any(uid, row) == TRUE

\* POLICY records_insert_own FOR INSERT WITH CHECK (auth.uid() = user_id)
records_insert_own(uid, row) == uid = row.user_id

\* mutation: the policy of the earlier schema without its same-day clause
records_delete_ownOrAdmin(uid, row) == uid = row.user_id \/ is_admin(uid)

\* POLICY records_delete FOR DELETE USING (is_admin() AND user_id <> auth.uid())
records_delete(uid, row) == is_admin(uid) /\ uid # Anon /\ row.user_id # uid

\* mutation: every signed-in identity may write the catalog
catalog_admin_signedIn(uid) == uid # Anon

\* POLICIES presets_insert_admin, presets_update_admin, presets_delete_admin,
\* ets_insert_admin, ets_update_admin, ets_delete_admin: all is_admin()
catalog_admin(uid) == is_admin(uid)

\* one request and the answer to it: the requester (auth.uid()), the ids the request
\* names (for an insert: the user_id values of its rows) and whether an error came back
Answer(op, uid, ids, error) == [op |-> op, uid |-> uid, ids |-> ids, error |-> error]

\* ---- auth.users / profiles ----

\* String.prototype.trim
RECURSIVE trimStart(_)
trimStart(name) ==
    IF name # <<>> /\ Head(name) \in WhiteSpace THEN trimStart(Tail(name)) ELSE name

RECURSIVE trimEnd(_)
trimEnd(name) ==
    IF name # <<>> /\ name[Len(name)] \in WhiteSpace
    THEN trimEnd(SubSeq(name, 1, Len(name) - 1))
    ELSE name

\* mutation: the name is taken as typed
trim_asTyped(name) == name

trim(name) == trimEnd(trimStart(name))

\* TextEncoder.encode of one character: its UTF-8 bytes; "SOH" and "DC1" stand
\* for the control characters U+0001 and U+0011
utf8(c) ==
    CASE c = "SOH" -> <<1>> [] c = "DC1" -> <<17>> [] c = " " -> <<32>>
      [] c = "W" -> <<87>> [] c = "a" -> <<97>> [] c = "c" -> <<99>>
      [] c = "d" -> <<100>> [] c = "e" -> <<101>> [] c = "l" -> <<108>>
      [] c = "m" -> <<109>> [] c = "n" -> <<110>> [] c = "u" -> <<117>>
      [] c = "w" -> <<119>> [] c = "z" -> <<122>>

HexDigits ==
    <<"0", "1", "2", "3", "4", "5", "6", "7", "8", "9", "a", "b", "c", "d", "e", "f">>

\* Number.prototype.toString(16) of a byte
toString16(b) ==
    IF b < 16 THEN <<HexDigits[b + 1]>>
    ELSE <<HexDigits[(b \div 16) + 1], HexDigits[(b % 16) + 1]>>

\* mutation: the digits of a byte are not padded
padStart2_none(digits) == digits

\* String.prototype.padStart(2, '0')
padStart2(digits) == IF Len(digits) < 2 THEN <<"0">> \o digits ELSE digits

\* Array.from(bytes).map(...).join('') over the bytes of one character
RECURSIVE hexOfBytes(_)
hexOfBytes(bytes) ==
    IF bytes = <<>> THEN <<>>
    ELSE padStart2(toString16(Head(bytes))) \o hexOfBytes(Tail(bytes))

hexOf(c) == hexOfBytes(utf8(c))

\* the hex digits of every byte of the name, joined
RECURSIVE hexOfName(_)
hexOfName(name) ==
    IF name = <<>> THEN <<>> ELSE hexOf(Head(name)) \o hexOfName(Tail(name))

AtWorkLocal == <<"@", "w", "o", "r", "k", ".", "l", "o", "c", "a", "l">>

\* nameToEmail: `u${hex}@work.local`
nameToEmail(name) == <<"u">> \o hexOfName(trim(name)) \o AtWorkLocal

\* the names nameToEmail is applied to: up to MaxNameLen characters, blanks and
\* control characters among them
EmailAlphabet == {" ", "l", "SOH", "DC1"}
EmailNames == UNION {[1..n -> EmailAlphabet] : n \in 0..MaxNameLen}

\* two calls of nameToEmail
ApplyNameToEmail ==
    /\ email1 = <<>>
    /\ email1' = nameToEmail(name1)
    /\ email2' = nameToEmail(name2)
    /\ UNCHANGED <<name1, name2>>
    /\ UNCHANGED <<calcVars, tableVars, lastOp, clientVars, pageVars, regVars, dateVars,
                   authVars>>

\* no identity (no row of auth.users)
NoEmail == <<>>
\* raw_user_meta_data->>'display_name' IS NULL
NoMeta == <<"NULL">>
Unnamed == <<"u", "n", "n", "a", "m", "e", "d">>

\* mutation: the trigger takes the role from the metadata of the sign-up
handle_new_user_admin(u, display_name) ==
    [id |-> u, name |-> IF display_name = NoMeta THEN Unnamed ELSE display_name,
     role |-> "admin", employee_type |-> "regular"]

\* TRIGGER on_auth_user_created -> handle_new_user(): the profile of a new identity;
\* COALESCE(NEW.raw_user_meta_data->>'display_name', 'unnamed')
handle_new_user(u, display_name) ==
    [id |-> u, name |-> IF display_name = NoMeta THEN Unnamed ELSE display_name,
     role |-> "user", employee_type |-> "regular"]

\* auth.users.email is unique
EmailTaken(email) == \E u \in UserIds : auth_users[u] = email

\* mutation: profiles.name without UNIQUE
NameTaken_never(name, except) == FALSE

\* profiles.name TEXT UNIQUE: another row has the name
NameTaken(name, except) ==
    \E u \in UserIds \ {except} : profiles[u] # NoRow /\ profiles[u].name = name

\* auth.signUp at the server: INSERT INTO auth.users fires on_auth_user_created in the
\* same transaction, so a unique violation in the trigger undoes the insert
CreateIdentityOk(u, email, display_name) ==
    /\ auth_users[u] = NoEmail
    /\ profiles[u] = NoRow
    /\ ~EmailTaken(email)
    /\ ~NameTaken(handle_new_user(u, display_name).name, u)

CreateIdentity(u, email, display_name) ==
    LET ok == CreateIdentityOk(u, email, display_name)
    IN  /\ auth_users' = IF ok THEN [auth_users EXCEPT ![u] = email] ELSE auth_users
        /\ user_meta' = IF ok THEN [user_meta EXCEPT ![u] = display_name] ELSE user_meta
        /\ profiles' = IF ok THEN [profiles EXCEPT ![u] = handle_new_user(u, display_name)]
                       ELSE profiles

\* identity u registers under its name
SignUp(u) ==
    /\ profiles[u] = NoRow
    /\ CreateIdentity(u, nameToEmail(DisplayNames[u]), DisplayNames[u])
    /\ lastOp' = Answer("sign_up", u, {u},
                        ~CreateIdentityOk(u, nameToEmail(DisplayNames[u]), DisplayNames[u]))
    /\ UNCHANGED <<work_records, nextRecordId, project_presets, nextPresetId,
                   employee_type_settings>>
    /\ UNCHANGED <<calcVars, clientVars, pageVars, reg, otherVars>>

\* the lowest id without an identity stands for the id auth.users generates
FreshIds == {u \in UserIds : auth_users[u] = NoEmail /\ profiles[u] = NoRow}
FreshId == CHOOSE u \in FreshIds : \A v \in FreshIds : u <= v

\* names given to register() and to the store: plain, with blanks around, blank only
TypedNames == {<<"l">>, <<" ", "l">>, <<" ">>}
StoredNames == {<<"l">>, <<"w">>}

\* register(name, password): the checks before the first request
RegisterCall(p, name, passwordOk) ==
    /\ reg[p].pc = "idle"
    /\ reg' = [reg EXCEPT ![p] =
                  [pc |-> IF trim(name) = <<>> THEN "error_name"
                          ELSE IF ~passwordOk THEN "error_password"
                          ELSE "preflight",
                   name |-> name, existing |-> FALSE, user |-> Anon]]
    /\ lastOp' = Answer("register", Anon, {p},
                        trim(name) = <<>> \/ ~passwordOk)
    /\ UNCHANGED <<auth_users, user_meta, tableVars>>
    /\ UNCHANGED <<calcVars, clientVars, pageVars, otherVars>>

\* register: .from('profiles').select('id').eq('name', trimmedName).maybeSingle()
\* returned (policy profiles_select_all); a failed read leaves `existing` empty
PreflightDone(p, failed) ==
    LET existing == ~failed /\ \E u \in UserIds :
                        profiles[u] # NoRow /\ profiles[u].name = trim(reg[p].name)
    IN  /\ reg[p].pc = "preflight"
        /\ reg' = [reg EXCEPT ![p].existing = existing,
                              ![p].pc = IF existing THEN "error_exists" ELSE "signup"]
        /\ lastOp' = Answer("register_preflight", Anon, {p}, failed)
        /\ UNCHANGED <<auth_users, user_meta, tableVars>>
        /\ UNCHANGED <<calcVars, clientVars, pageVars, otherVars>>

\* register: supabase.auth.signUp({ email, password, options: { data: { display_name:
\* trimmedName } } }) returned; setUser(data.user) when it made an identity
SignUpDone(p) ==
    LET trimmedName == trim(reg[p].name)
        email == nameToEmail(trimmedName)
        u == FreshId
        ok == CreateIdentityOk(u, email, trimmedName)
    IN  /\ reg[p].pc = "signup"
        /\ FreshIds # {}
        /\ CreateIdentity(u, email, trimmedName)
        /\ reg' = [reg EXCEPT ![p].pc = IF ok THEN "registered" ELSE "error_signup",
                              ![p].user = IF ok THEN u ELSE Anon]
        /\ lastOp' = Answer("register_sign_up", IF ok THEN u ELSE Anon, {p}, ~ok)
        /\ UNCHANGED <<work_records, nextRecordId, project_presets, nextPresetId,
                       employee_type_settings>>
        /\ UNCHANGED <<calcVars, clientVars, pageVars, otherVars>>

\* auth.signUp sent by another client: any address, any metadata
DirectSignUp(emailName, display_name) ==
    LET u == FreshId
        ok == CreateIdentityOk(u, nameToEmail(emailName), display_name)
    IN  /\ FreshIds # {}
        /\ CreateIdentity(u, nameToEmail(emailName), display_name)
        /\ lastOp' = Answer("sign_up", IF ok THEN u ELSE Anon, {}, ~ok)
        /\ UNCHANGED <<work_records, nextRecordId, project_presets, nextPresetId,
                       employee_type_settings>>
        /\ UNCHANGED <<calcVars, clientVars, pageVars, reg, otherVars>>

\* POLICY profiles_insert_own: WITH CHECK (auth.uid() = id)
profiles_insert_own(uid, row) == uid = row.id

\* INSERT INTO profiles sent by a signed-in client; id is the primary key
InsertProfile(uid, row) ==
    LET ok == /\ profiles_insert_own(uid, row)
              /\ profiles[row.id] = NoRow
              /\ ~NameTaken(row.name, row.id)
    IN  /\ uid \in UserIds /\ auth_users[uid] # NoEmail
        /\ row.id \in UserIds
        /\ profiles' = IF ok THEN [profiles EXCEPT ![row.id] = row] ELSE profiles
        /\ lastOp' = Answer("insert_profile", uid, {row.id}, ~ok)
        /\ UNCHANGED <<work_records, nextRecordId, project_presets, nextPresetId,
                       employee_type_settings>>
        /\ UNCHANGED <<calcVars, clientVars, pageVars, regVars, otherVars>>

\* supabase.from('profiles').update({ [field]: value }).eq('id', userId)
\* profiles.name is UNIQUE
UpdateProfile(uid, userId, field, value) ==
    LET hit == profiles[userId] # NoRow /\ profiles_update(uid, profiles[userId])
        clash == hit /\ field = "name" /\ NameTaken(value, userId)
    IN
    /\ uid \in Actors
    /\ userId \in Registered
    /\ \/ field = "role" /\ value \in Roles
       \/ field = "employee_type" /\ value \in EmployeeTypes
       \/ field = "name" /\ value \in StoredNames
    /\ profiles' =
          [u \in UserIds |->
              IF u = userId /\ hit /\ ~clash
              THEN [profiles[u] EXCEPT ![field] = value]
              ELSE profiles[u]]
    /\ lastOp' = Answer("update_profile", uid, {userId}, clash)
    /\ UNCHANGED <<work_records, nextRecordId, project_presets, nextPresetId,
                   employee_type_settings>>
    /\ UNCHANGED <<calcVars, clientVars, pageVars, regVars, otherVars>>

\* DELETE on profiles: row-level security is enabled and no policy is FOR DELETE
DeleteProfile(uid, userId) ==
    /\ uid \in Actors
    /\ userId \in Registered
    /\ lastOp' = Answer("delete_profile", uid, {userId}, FALSE)
    /\ UNCHANGED tableVars
    /\ UNCHANGED <<calcVars, clientVars, pageVars, regVars, otherVars>>

\* ---- work_records ----

\* the rows of one insert statement, with the ids the table default gives them
NewRows(rows) ==
    {[rows[i] EXCEPT !.id = nextRecordId + i - 1] : i \in 1..Len(rows)}

\* supabase.from('work_records').insert(rows): all rows or none
InsertInto(uid, rows, op) ==
    LET ok == /\ \A i \in 1..Len(rows) : records_insert_own(uid, rows[i])
              /\ \A i \in 1..Len(rows) : rows[i].user_id \in Registered
    IN  /\ nextRecordId + Len(rows) - 1 <= MaxRecordRows
        /\ work_records' = IF ok THEN work_records \cup NewRows(rows) ELSE work_records
        /\ nextRecordId' = IF ok THEN nextRecordId + Len(rows) ELSE nextRecordId
        /\ lastOp' = Answer(op, uid, {rows[i].user_id : i \in 1..Len(rows)}, ~ok)

\* a row as another client may send it
PlainRow(owner) ==
    [id |-> 0, user_id |-> owner, user_name |-> DisplayNames[owner],
     project_name |-> ProjectAi, workload |-> 5, overtime |-> 2,
     unit_price_snapshot |-> 30, overtime_rate_snapshot |-> 9]

InsertRecords(uid, owners) ==
    /\ uid \in Actors
    /\ InsertInto(uid, [i \in 1..Len(owners) |-> PlainRow(owners[i])], "insert_records")
    /\ UNCHANGED <<profiles, project_presets, nextPresetId, employee_type_settings>>
    /\ UNCHANGED <<calcVars, clientVars, pageVars, regVars, otherVars>>

\* quantities a client may send: DECIMAL(10,2) has no CHECK
Quantities == {-1, 5}

\* a row with the quantities another client chooses
QuantityRow(owner, workload, overtime) ==
    [PlainRow(owner) EXCEPT !.workload = workload, !.overtime = overtime]

InsertQuantities(uid, owner, workload, overtime) ==
    /\ uid \in Actors
    /\ InsertInto(uid, <<QuantityRow(owner, workload, overtime)>>, "insert_records")
    /\ UNCHANGED <<profiles, project_presets, nextPresetId, employee_type_settings>>
    /\ UNCHANGED <<calcVars, clientVars, pageVars, regVars, otherVars>>

\* supabase.from('work_records').delete().eq('id', id) / .in('id', selectedRowKeys)
DeleteRecords(uid, ids) ==
    /\ uid \in Actors
    /\ ids # {}
    /\ ids \subseteq {r.id : r \in work_records}
    /\ work_records' = {r \in work_records : ~(r.id \in ids /\ records_delete(uid, r))}
    /\ lastOp' = Answer("delete_records", uid, ids, FALSE)
    /\ UNCHANGED <<profiles, nextRecordId, project_presets, nextPresetId,
                   employee_type_settings>>
    /\ UNCHANGED <<calcVars, clientVars, pageVars, regVars, otherVars>>

\* UPDATE on work_records: row-level security is enabled and no policy is FOR UPDATE,
\* so no row passes
records_update(uid, row) == FALSE

\* UPDATE work_records SET <the columns EditRecordModal sends>
ApplyUpdates(r, updates) ==
    [r EXCEPT !.project_name = updates.project_name,
              !.workload = updates.workload,
              !.overtime = updates.overtime,
              !.unit_price_snapshot = updates.unit_price_snapshot,
              !.overtime_rate_snapshot = updates.overtime_rate_snapshot]

\* supabase.from('work_records').update(updates).eq('id', id): the rows that do not
\* pass the policy are skipped without an error
UpdateInto(uid, id, updates, op) ==
    /\ work_records' =
          {IF r.id = id /\ records_update(uid, r) THEN ApplyUpdates(r, updates) ELSE r :
             r \in work_records}
    /\ lastOp' = Answer(op, uid, {id}, FALSE)

\* the column values another client may send
PlainUpdates ==
    [project_name |-> ProjectAiLower, workload |-> 7, overtime |-> 0,
     unit_price_snapshot |-> 30, overtime_rate_snapshot |-> 9]

UpdateRecord(uid, id, updates) ==
    /\ uid \in Actors
    /\ id \in {r.id : r \in work_records}
    /\ UpdateInto(uid, id, updates, "update_record")
    /\ UNCHANGED <<profiles, nextRecordId, project_presets, nextPresetId,
                   employee_type_settings>>
    /\ UNCHANGED <<calcVars, clientVars, pageVars, regVars, otherVars>>

\* ---- project_presets / employee_type_settings ----

PresetNamed(n) == {p \in project_presets : p.project_name = n}
SettingTyped(t) == {e \in employee_type_settings : e.type_name = t}

\* handleSavePreset (no editingPreset): supabase.from('project_presets').insert(values)
\* project_name is UNIQUE
InsertPreset(uid, name, price) ==
    LET ok == catalog_admin(uid) /\ PresetNamed(name) = {}
    IN  /\ uid \in Actors
        /\ nextPresetId <= MaxPresets
        /\ project_presets' =
              IF ok THEN project_presets \cup
                         {[id |-> nextPresetId, project_name |-> name,
                           unit_price |-> price, is_active |-> TRUE]}
              ELSE project_presets
        /\ nextPresetId' = IF ok THEN nextPresetId + 1 ELSE nextPresetId
        /\ lastOp' = Answer("insert_preset", uid, {}, ~ok)
        /\ UNCHANGED <<profiles, work_records, nextRecordId, employee_type_settings>>
        /\ UNCHANGED <<calcVars, clientVars, pageVars, regVars, otherVars>>

\* mutation: a new price is carried into the records of that project
UpdatePreset_cascade(uid, id, name, price) ==
    LET hit == {p \in project_presets : p.id = id /\ catalog_admin(uid)}
        clash == hit # {} /\ \E q \in project_presets : q.id # id /\ q.project_name = name
    IN  /\ uid \in Actors
        /\ id \in {p.id : p \in project_presets}
        /\ project_presets' =
              IF clash THEN project_presets
              ELSE (project_presets \ hit) \cup
                   {[p EXCEPT !.project_name = name, !.unit_price = price] : p \in hit}
        /\ work_records' =
              IF clash \/ hit = {} THEN work_records
              ELSE {IF r.project_name = name
                    THEN [r EXCEPT !.unit_price_snapshot = price] ELSE r :
                    r \in work_records}
        /\ lastOp' = Answer("update_preset", uid, {id}, clash)
        /\ UNCHANGED <<profiles, nextRecordId, nextPresetId, employee_type_settings>>
        /\ UNCHANGED <<calcVars, clientVars, pageVars, regVars, otherVars>>

\* handleSavePreset (editingPreset):
\* supabase.from('project_presets').update(values).eq('id', editingPreset.id)
UpdatePreset(uid, id, name, price) ==
    LET hit == {p \in project_presets : p.id = id /\ catalog_admin(uid)}
        clash == hit # {} /\ \E q \in project_presets : q.id # id /\ q.project_name = name
    IN  /\ uid \in Actors
        /\ id \in {p.id : p \in project_presets}
        /\ project_presets' =
              IF clash THEN project_presets
              ELSE (project_presets \ hit) \cup
                   {[p EXCEPT !.project_name = name, !.unit_price = price] : p \in hit}
        /\ lastOp' = Answer("update_preset", uid, {id}, clash)
        /\ UNCHANGED <<profiles, work_records, nextRecordId, nextPresetId,
                       employee_type_settings>>
        /\ UNCHANGED <<calcVars, clientVars, pageVars, regVars, otherVars>>

\* the Switch of the preset table:
\* supabase.from('project_presets').update({ is_active: checked }).eq('id', record.id)
SetPresetActive(uid, id, checked) ==
    LET hit == {p \in project_presets : p.id = id /\ catalog_admin(uid)}
    IN  /\ uid \in Actors
        /\ id \in {p.id : p \in project_presets}
        /\ project_presets' =
              (project_presets \ hit) \cup {[p EXCEPT !.is_active = checked] : p \in hit}
        /\ lastOp' = Answer("set_preset_active", uid, {id}, FALSE)
        /\ UNCHANGED <<profiles, work_records, nextRecordId, nextPresetId,
                       employee_type_settings>>
        /\ UNCHANGED <<calcVars, clientVars, pageVars, regVars, otherVars>>

\* handleDeletePreset: supabase.from('project_presets').delete().eq('id', id)
DeletePreset(uid, id) ==
    /\ uid \in Actors
    /\ id \in {p.id : p \in project_presets}
    /\ project_presets' = {p \in project_presets : ~(p.id = id /\ catalog_admin(uid))}
    /\ lastOp' = Answer("delete_preset", uid, {id}, FALSE)
    /\ UNCHANGED <<profiles, work_records, nextRecordId, nextPresetId,
                   employee_type_settings>>
    /\ UNCHANGED <<calcVars, clientVars, pageVars, regVars, otherVars>>

\* INSERT on employee_type_settings (policy ets_insert_admin); type_name is UNIQUE
InsertSetting(uid, type, wage, rate) ==
    LET ok == catalog_admin(uid) /\ SettingTyped(type) = {}
    IN  /\ uid \in Actors
        /\ employee_type_settings' =
              IF ok THEN employee_type_settings \cup
                         {[type_name |-> type, daily_wage |-> wage, overtime_rate |-> rate]}
              ELSE employee_type_settings
        /\ lastOp' = Answer("insert_setting", uid, {}, ~ok)
        /\ UNCHANGED <<profiles, work_records, nextRecordId, project_presets, nextPresetId>>
        /\ UNCHANGED <<calcVars, clientVars, pageVars, regVars, otherVars>>

\* handleSaveEmployeeSettings: supabase.from('employee_type_settings')
\*   .update({ daily_wage, overtime_rate }).eq('id', setting.id)
UpdateSetting(uid, type, wage, rate) ==
    LET hit == {e \in SettingTyped(type) : catalog_admin(uid)}
    IN  /\ uid \in Actors
        /\ SettingTyped(type) # {}
        /\ employee_type_settings' =
              (employee_type_settings \ hit) \cup
              {[e EXCEPT !.daily_wage = wage, !.overtime_rate = rate] : e \in hit}
        /\ lastOp' = Answer("update_setting", uid, {}, FALSE)
        /\ UNCHANGED <<profiles, work_records, nextRecordId, project_presets, nextPresetId>>
        /\ UNCHANGED <<calcVars, clientVars, pageVars, regVars, otherVars>>

\* DELETE on employee_type_settings (policy ets_delete_admin)
DeleteSetting(uid, type) ==
    /\ uid \in Actors
    /\ SettingTyped(type) # {}
    /\ employee_type_settings' =
          {e \in employee_type_settings : ~(e.type_name = type /\ catalog_admin(uid))}
    /\ lastOp' = Answer("delete_setting", uid, {}, FALSE)
    /\ UNCHANGED <<profiles, work_records, nextRecordId, project_presets, nextPresetId>>
    /\ UNCHANGED <<calcVars, clientVars, pageVars, regVars, otherVars>>

-----------------------------------------------------------------------------
(* One browser: session, cached profile, add-record modal, edit-record modal *)

\* login: signInWithPassword succeeded for identity u; fetchProfile(u) is issued
SignIn(u) ==
    /\ u \in Registered
    /\ session' = u
    /\ fetching' = fetching \cup {u}
    /\ lastOp' = Answer("sign_in", u, {}, FALSE)
    /\ UNCHANGED <<profile, presets, employeeSettings>>
    /\ UNCHANGED <<calcVars, tableVars, pageVars, regVars, otherVars>>

\* fetchProfile(userId) returns: setProfile(data) unless the request failed
FetchProfileDone(userId, failed) ==
    /\ userId \in fetching
    /\ fetching' = fetching \ {userId}
    /\ profile' = IF failed \/ profiles[userId] = NoRow THEN profile ELSE profiles[userId]
    /\ lastOp' = Answer("fetch_profile", userId, {}, failed \/ profiles[userId] = NoRow)
    /\ UNCHANGED <<session, presets, employeeSettings>>
    /\ UNCHANGED <<calcVars, tableVars, pageVars, regVars, otherVars>>

\* logout: signOut(), setProfile(null), setUser(null)
Logout ==
    /\ session # Anon
    /\ session' = Anon
    /\ profile' = NoRow
    /\ lastOp' = Answer("logout", session, {}, FALSE)
    /\ UNCHANGED <<fetching, presets, employeeSettings>>
    /\ UNCHANGED <<calcVars, tableVars, pageVars, regVars, otherVars>>

\* AddRecordModal opened, fetchPresets returned: active presets
FetchPresets ==
    /\ presets' = {p \in project_presets : p.is_active}
    /\ lastOp' = Answer("fetch_presets", session, {}, FALSE)
    /\ UNCHANGED <<session, profile, fetching, employeeSettings>>
    /\ UNCHANGED <<calcVars, tableVars, pageVars, regVars, otherVars>>

\* AddRecordModal opened, fetchEmployeeSettings returned
FetchEmployeeSettings ==
    /\ employeeSettings' = employee_type_settings
    /\ lastOp' = Answer("fetch_employee_settings", session, {}, FALSE)
    /\ UNCHANGED <<session, profile, fetching, presets>>
    /\ UNCHANGED <<calcVars, tableVars, pageVars, regVars, otherVars>>

DefaultOvertimeRate == 9

\* AddRecordModal.getUnitPrice
getUnitPrice(projectName) ==
    IF projectName = AttendanceProject
    THEN LET found == {e \in employeeSettings : e.type_name = profile.employee_type}
         IN  IF found = {} THEN 0 ELSE (CHOOSE e \in found : TRUE).daily_wage
    ELSE LET found == {q \in presets : q.project_name = projectName}
         IN  IF found = {} THEN 0 ELSE (CHOOSE q \in found : TRUE).unit_price

\* mutation: the default rate, whatever the settings
getOvertimeRate_default == DefaultOvertimeRate

\* AddRecordModal.getOvertimeRate
getOvertimeRate ==
    LET found == {e \in employeeSettings : e.type_name = profile.employee_type}
    IN  IF found = {} THEN DefaultOvertimeRate ELSE (CHOOSE e \in found : TRUE).overtime_rate

\* names chosen or typed in the form: a preset, the attendance project, a custom name
FormProjects == {ProjectAi, AttendanceProject, ProjectAiLower}

\* AddRecordModal.handleSubmit: one row of values.records.map(...)
FormRow(projectName) ==
    [id |-> 0, user_id |-> profile.id, user_name |-> profile.name,
     project_name |-> projectName, workload |-> 5, overtime |-> 2,
     unit_price_snapshot |-> getUnitPrice(projectName),
     overtime_rate_snapshot |-> getOvertimeRate]

\* AddRecordModal.handleSubmit: if (!profile) return
NoProfileLoaded == profile = NoRow

\* AddRecordModal.handleSubmit
AddRecordSubmit(projects) ==
    /\ Len(projects) >= 1
    /\ IF NoProfileLoaded
       THEN /\ lastOp' = Answer("add_record_no_profile", session, {}, FALSE)
            /\ UNCHANGED <<work_records, nextRecordId>>
       ELSE InsertInto(session, [i \in 1..Len(projects) |-> FormRow(projects[i])],
                       "add_record")
    /\ UNCHANGED <<profiles, project_presets, nextPresetId, employee_type_settings>>
    /\ UNCHANGED <<calcVars, clientVars, pageVars, regVars, otherVars>>

\* ---- EditRecordModal ----

NoRequest == [id |-> 0, updates |-> PlainUpdates]

\* the modal opens on a record of the list (prop `record`)
OpenEdit(id) ==
    /\ editRecordId = 0
    /\ id \in {r.id : r \in work_records}
    /\ editRecordId' = id
    /\ editRequest' = NoRequest
    /\ lastOp' = Answer("open_edit", session, {id}, FALSE)
    /\ UNCHANGED <<selectedRowKeys, confirmDialog, editPresets, editEmployeeSettings>>
    /\ UNCHANGED <<calcVars, tableVars, clientVars, regVars, otherVars>>

\* fetchData returned: every preset and every setting
EditFetchData ==
    /\ editRecordId # 0
    /\ editPresets' = project_presets
    /\ editEmployeeSettings' = employee_type_settings
    /\ lastOp' = Answer("edit_fetch_data", session, {}, FALSE)
    /\ UNCHANGED <<selectedRowKeys, confirmDialog, editRecordId, editRequest>>
    /\ UNCHANGED <<calcVars, tableVars, clientVars, regVars, otherVars>>

\* prop `employeeType`: the page that renders the modal is not in the source; it
\* passes the employee_type of the acting user's profile (null without a profile)
EditEmployeeType == profile.employee_type

\* mutation: the price of the preset, whatever the project
editGetUnitPrice_presetOnly(projectName) ==
    LET found == {q \in editPresets : q.project_name = projectName}
    IN  IF found = {} THEN 0 ELSE (CHOOSE q \in found : TRUE).unit_price

\* EditRecordModal.getUnitPrice
editGetUnitPrice(projectName) ==
    IF projectName = AttendanceProject
    THEN LET found == {e \in editEmployeeSettings : e.type_name = EditEmployeeType}
         IN  IF found = {} THEN 0 ELSE (CHOOSE e \in found : TRUE).daily_wage
    ELSE LET found == {q \in editPresets : q.project_name = projectName}
         IN  IF found = {} THEN 0 ELSE (CHOOSE q \in found : TRUE).unit_price

\* EditRecordModal.getOvertimeRate
editGetOvertimeRate ==
    LET found == {e \in editEmployeeSettings : e.type_name = EditEmployeeType}
    IN  IF found = {} THEN DefaultOvertimeRate ELSE (CHOOSE e \in found : TRUE).overtime_rate

\* names typed into the project field: a preset, the attendance project with a
\* blank before it
EditTyped == {ProjectAi, <<" ">> \o AttendanceProject}

\* EditRecordModal.handleSubmit: `updates`
EditUpdates(typed) ==
    [project_name |-> trim(typed), workload |-> 7, overtime |-> 0,
     unit_price_snapshot |-> editGetUnitPrice(trim(typed)),
     overtime_rate_snapshot |-> editGetOvertimeRate]

\* EditRecordModal.handleSubmit: no error comes back, so onSuccess() and onClose()
EditRecordSubmit(typed) ==
    /\ editRecordId # 0
    /\ editRequest' = [id |-> editRecordId, updates |-> EditUpdates(typed)]
    /\ UpdateInto(session, editRecordId, EditUpdates(typed), "edit_record")
    /\ editRecordId' = 0
    /\ UNCHANGED <<selectedRowKeys, confirmDialog, editPresets, editEmployeeSettings>>
    /\ UNCHANGED <<profiles, nextRecordId, project_presets, nextPresetId,
                   employee_type_settings>>
    /\ UNCHANGED <<calcVars, clientVars, regVars, otherVars>>

\* ---- Dashboard ----

Days == 1..MaxDays

\* midnight
DayPasses ==
    /\ today < MaxDays
    /\ today' = today + 1
    /\ lastOp' = Answer("day_passes", Anon, {}, FALSE)
    /\ UNCHANGED <<record_date, dashRecords>>
    /\ UNCHANGED <<calcVars, tableVars, clientVars, pageVars, regVars, emailVars, authVars>>

\* an insert of one row with the record_date the client chose (AddRecordModal sends
\* the date of its date picker)
InsertDated(uid, owner, date) ==
    /\ uid \in Actors
    /\ date \in Days
    /\ InsertInto(uid, <<PlainRow(owner)>>, "insert_records")
    /\ record_date' = [record_date EXCEPT ![nextRecordId] = date]
    /\ UNCHANGED <<today, dashRecords>>
    /\ UNCHANGED <<profiles, project_presets, nextPresetId, employee_type_settings>>
    /\ UNCHANGED <<calcVars, clientVars, pageVars, regVars, emailVars, authVars>>

\* what fetchRecords loads: the rows of the profile's user (all days are of the
\* selected month)
OwnRecordIds(rows) == {r.id : r \in {q \in rows : q.user_id = profile.id}}

\* fetchRecords returned
fetchRecords ==
    /\ profile # NoRow
    /\ dashRecords' = OwnRecordIds(work_records)
    /\ lastOp' = Answer("fetch_records", session, {}, FALSE)
    /\ UNCHANGED <<today, record_date>>
    /\ UNCHANGED <<calcVars, tableVars, clientVars, pageVars, regVars, emailVars, authVars>>

\* the delete button of a listed row: record.record_date === today
isToday(id) == record_date[id] = today

\* handleDelete(id) from the button of a listed row: the request returns no error,
\* so '删除成功' is shown and fetchRecords() reloads the list
handleDelete(id) ==
    /\ id \in dashRecords
    /\ isToday(id)
    /\ work_records' = {r \in work_records : ~(r.id = id /\ records_delete(session, r))}
    /\ lastOp' = Answer("dashboard_delete", session, {id}, FALSE)
    /\ dashRecords' = IF profile = NoRow THEN dashRecords
                      ELSE OwnRecordIds(work_records')
    /\ UNCHANGED <<today, record_date>>
    /\ UNCHANGED <<profiles, nextRecordId, project_presets, nextPresetId,
                   employee_type_settings>>
    /\ UNCHANGED <<calcVars, clientVars, pageVars, regVars, emailVars, authVars>>

-----------------------------------------------------------------------------
(* The admin page: bulk delete behind a password confirmation *)

\* rowSelection.onChange: setSelectedRowKeys; the table lists the records of the
\* user the admin selected (fetchUserRecords: .eq('user_id', selectedUser.id))
SelectRows(selectedUser, ids) ==
    /\ confirmDialog = "closed"
    /\ ids \subseteq {r.id : r \in {q \in work_records : q.user_id = selectedUser}}
    /\ ids # selectedRowKeys
    /\ selectedRowKeys' = ids
    /\ lastOp' = Answer("select_rows", session, ids, FALSE)
    /\ UNCHANGED <<confirmDialog, editRecordId, editPresets, editEmployeeSettings, editRequest>>
    /\ UNCHANGED <<calcVars, tableVars, clientVars, regVars, otherVars>>

\* handleBatchDelete: nothing selected -> warning; otherwise the confirm() dialog opens
handleBatchDelete ==
    /\ confirmDialog = "closed"
    /\ IF selectedRowKeys = {}
       THEN /\ lastOp' = Answer("batch_delete_none_selected", session, {}, FALSE)
            /\ UNCHANGED confirmDialog
       ELSE /\ lastOp' = Answer("batch_delete_confirm", session, selectedRowKeys, FALSE)
            /\ confirmDialog' = "open"
    /\ UNCHANGED <<selectedRowKeys, editRecordId, editPresets, editEmployeeSettings, editRequest>>
    /\ UNCHANGED <<calcVars, tableVars, clientVars, regVars, otherVars>>

\* mutation: the answer of the password check is not looked at
authError_ignored(answer) == FALSE

\* onOk: if (authError) { ...; throw }
authError(answer) == answer.error

\* onOk up to the answer of signInWithPassword({ email, password: passwordInput })
ConfirmOk(passwordOk) ==
    /\ confirmDialog = "open"
    /\ IF profile = NoRow
       THEN /\ confirmDialog' = "closed"
            /\ lastOp' = Answer("batch_delete_no_profile", session, {}, FALSE)
            /\ UNCHANGED session
       ELSE LET email == nameToEmail(profile.name)
                granted == passwordOk /\ EmailTaken(email)
                who == IF granted THEN CHOOSE u \in UserIds : auth_users[u] = email
                       ELSE session
                answer == Answer("reauth", who, {}, ~granted)
            IN  /\ lastOp' = answer
                /\ session' = who
                /\ confirmDialog' = IF authError(answer) THEN "open" ELSE "reauthenticated"
    /\ UNCHANGED <<selectedRowKeys, editRecordId, editPresets, editEmployeeSettings, editRequest>>
    /\ UNCHANGED <<profile, fetching, presets, employeeSettings>>
    /\ UNCHANGED <<calcVars, tableVars, regVars, otherVars>>

\* the dialog's cancel button
ConfirmCancel ==
    /\ confirmDialog = "open"
    /\ confirmDialog' = "closed"
    /\ lastOp' = Answer("batch_delete_cancel", session, {}, FALSE)
    /\ UNCHANGED <<selectedRowKeys, editRecordId, editPresets, editEmployeeSettings, editRequest>>
    /\ UNCHANGED <<calcVars, tableVars, clientVars, regVars, otherVars>>

\* onOk after the password check:
\* supabase.from('work_records').delete().in('id', selectedRowKeys), setSelectedRowKeys([])
BatchDeleteExecute ==
    /\ confirmDialog = "reauthenticated"
    /\ work_records' =
          {r \in work_records : ~(r.id \in selectedRowKeys /\ records_delete(session, r))}
    /\ lastOp' = Answer("batch_delete", session, selectedRowKeys, FALSE)
    /\ selectedRowKeys' = {}
    /\ confirmDialog' = "closed"
    /\ UNCHANGED <<editRecordId, editPresets, editEmployeeSettings, editRequest>>
    /\ UNCHANGED <<profiles, nextRecordId, project_presets, nextPresetId,
                   employee_type_settings>>
    /\ UNCHANGED <<calcVars, clientVars, regVars, otherVars>>

-----------------------------------------------------------------------------
(* AuthProvider: the auth-state listener, the profile-loading effect, login, *)
(* logout; ProtectedRoute and the routes of App                              *)

\* fetches one run of load() may issue (`if (attempt < 4)` schedules the next)
LoadAttempts == 4
\* the model follows the fetches of load() up to this many per signed-in user
MaxAttempts == 5

\* no run of load() pending
NoLoader == [userId |-> Anon, attempt |-> 0, pc |-> "none", delay |-> 0]

\* load(1) behind its first timer of 100 ms
FirstLoad(userId) == [userId |-> userId, attempt |-> 1, pc |-> "timer", delay |-> 100]

\* `const delay = attempt * 1500`
retryDelay(attempt) == attempt * 1500

\* `if (attempt < 4)`
retryAllowed(attempt) == attempt < LoadAttempts

\* what fetchProfile(userId) gets: the row, or null (.single() finds none, or the
\* request failed)
fetchResult(userId, failed) ==
    IF failed \/ profiles[userId] = NoRow THEN NoRow ELSE profiles[userId]

\* the fetch of the current run of load() while it is in flight: the cleanup of the
\* effect sets `cancelled`, the request itself goes on
loaderInFlight == IF loader.pc = "fetching" THEN {loader.userId} ELSE {}

\* `if (userId === userIdRef.current && profile) return`
effectReturnsEarly(u, p) == u = userIdRef /\ p # NoRow

\* The profile-loading effect, run on a render in which `user` is (a new object for)
\* u or `profile` is p: the cleanup of the run before cancels its load(); the early
\* return; userIdRef.current = userId; without a user setProfile(null) (after which
\* the effect runs once more and changes nothing); otherwise load(1) after 100 ms.
\* inFlight: the fetches in flight that no run of load() waits for.
profileEffect(u, p, inFlight) ==
    /\ user' = u
    /\ userIdRef' = IF effectReturnsEarly(u, p) THEN userIdRef ELSE u
    /\ profile' = IF effectReturnsEarly(u, p) THEN p ELSE IF u = Anon THEN NoRow ELSE p
    /\ loader' = IF effectReturnsEarly(u, p) \/ u = Anon THEN NoLoader ELSE FirstLoad(u)
    /\ fetching' = inFlight
    /\ attempts' = IF u = user THEN attempts ELSE 0

\* onAuthStateChange delivers INITIAL_SESSION with the stored session:
\* setUser(session?.user ?? null), setProfile(null) without a user, setLoading(false)
OnInitialSession ==
    /\ ~initialSession
    /\ initialSession' = TRUE
    /\ loading' = FALSE
    /\ profileEffect(session, IF session = Anon THEN NoRow ELSE profile,
                     fetching \cup loaderInFlight)
    /\ lastOp' = Answer("INITIAL_SESSION", session, {}, FALSE)
    /\ UNCHANGED <<session, presets, employeeSettings, safetyTimeout, location>>
    /\ UNCHANGED <<calcVars, tableVars, pageVars, regVars, emailVars, dateVars>>

\* onAuthStateChange delivers TOKEN_REFRESHED, or SIGNED_IN again, with the session
\* of the signed-in user: setUser(session.user), a new object
OnAuthStateChange ==
    /\ session # Anon
    /\ profileEffect(session, profile, fetching \cup loaderInFlight)
    /\ lastOp' = Answer("TOKEN_REFRESHED", session, {}, FALSE)
    /\ UNCHANGED <<session, presets, employeeSettings, loading, initialSession,
                   safetyTimeout, location>>
    /\ UNCHANGED <<calcVars, tableVars, pageVars, regVars, emailVars, dateVars>>

\* the 5 s timer of the provider fires: setLoading(false)
SafetyTimeout_idle ==
    /\ safetyTimeout
    /\ safetyTimeout' = FALSE
    /\ lastOp' = Answer("safety_timeout", Anon, {}, FALSE)
    /\ UNCHANGED <<clientVars, user, loading, initialSession, userIdRef, loader, attempts,
                   location>>
    /\ UNCHANGED <<calcVars, tableVars, pageVars, regVars, emailVars, dateVars>>

SafetyTimeout ==
    /\ safetyTimeout
    /\ safetyTimeout' = FALSE
    /\ loading' = FALSE
    /\ lastOp' = Answer("safety_timeout", Anon, {}, FALSE)
    /\ UNCHANGED <<clientVars, user, initialSession, userIdRef, loader, attempts, location>>
    /\ UNCHANGED <<calcVars, tableVars, pageVars, regVars, emailVars, dateVars>>

\* login: signInWithPassword succeeds for u (the listener gets SIGNED_IN),
\* setUser(data.user), fetchProfile(u) is issued and awaited
login(u) ==
    /\ u \in Registered
    /\ session' = u
    /\ profileEffect(u, profile, fetching \cup loaderInFlight \cup {u})
    /\ lastOp' = Answer("login", u, {}, FALSE)
    /\ UNCHANGED <<presets, employeeSettings, loading, initialSession, safetyTimeout,
                   location>>
    /\ UNCHANGED <<calcVars, tableVars, pageVars, regVars, emailVars, dateVars>>

\* logout: signOut() (the listener gets SIGNED_OUT: setUser(null), setProfile(null)),
\* or signOut() throws and the session stays; then setProfile(null), setUser(null)
logout(signedOut) ==
    /\ user # Anon
    /\ session' = IF signedOut THEN Anon ELSE session
    /\ profileEffect(Anon, NoRow, fetching \cup loaderInFlight)
    /\ lastOp' = Answer("logout", user, {}, ~signedOut)
    /\ UNCHANGED <<presets, employeeSettings, loading, initialSession, safetyTimeout,
                   location>>
    /\ UNCHANGED <<calcVars, tableVars, pageVars, regVars, emailVars, dateVars>>

\* the timer of load(attempt) fires: `if (cancelled) return` passes (the cleanup
\* clears the timer), fetchProfile(userId) is issued
load ==
    /\ loader.pc = "timer"
    /\ attempts < MaxAttempts
    /\ loader' = [loader EXCEPT !.pc = "fetching"]
    /\ attempts' = attempts + 1
    /\ lastOp' = Answer("load", loader.userId, {}, FALSE)
    /\ UNCHANGED <<clientVars, user, loading, initialSession, safetyTimeout, userIdRef,
                   location>>
    /\ UNCHANGED <<calcVars, tableVars, pageVars, regVars, emailVars, dateVars>>

\* the fetchProfile of load(attempt) returns: with a row setProfile(data) (the effect
\* runs and returns early); without one the next attempt is scheduled, up to four
loadReturns(failed) ==
    /\ loader.pc = "fetching"
    /\ LET data == fetchResult(loader.userId, failed) IN
         /\ IF data # NoRow
            THEN profileEffect(user, data, fetching)
            ELSE /\ loader' = IF retryAllowed(loader.attempt)
                              THEN [loader EXCEPT !.attempt = @ + 1, !.pc = "timer",
                                                  !.delay = retryDelay(loader.attempt)]
                              ELSE NoLoader
                 /\ UNCHANGED <<user, userIdRef, profile, fetching, attempts>>
         /\ lastOp' = Answer("load_returns", loader.userId, {}, data = NoRow)
    /\ UNCHANGED <<session, presets, employeeSettings, loading, initialSession,
                   safetyTimeout, location>>
    /\ UNCHANGED <<calcVars, tableVars, pageVars, regVars, emailVars, dateVars>>

\* `if (data && mountedRef.current) setProfile(data)`
fetchInstalls(userId, data) == data # NoRow

\* a fetchProfile that no run of load() waits for returns (the one login awaits, or
\* one whose run was cancelled): setProfile(data) with a row, whoever `user` is
fetchProfileReturns(userId, failed) ==
    /\ userId \in fetching
    /\ LET data == fetchResult(userId, failed) IN
         /\ IF fetchInstalls(userId, data)
            THEN profileEffect(user, data, (fetching \ {userId}) \cup loaderInFlight)
            ELSE /\ fetching' = fetching \ {userId}
                 /\ UNCHANGED <<user, userIdRef, profile, loader, attempts>>
         /\ lastOp' = Answer("fetch_profile", userId, {}, data = NoRow)
    /\ UNCHANGED <<session, presets, employeeSettings, loading, initialSession,
                   safetyTimeout, location>>
    /\ UNCHANGED <<calcVars, tableVars, pageVars, regVars, emailVars, dateVars>>

\* what a route shows: a page, the spinner, or <Navigate to=... replace />
Navigate(to) == <<"Navigate", to>>
Spin == <<"Spin">>

\* mutation: the guard admits whoever is signed in
ProtectedRoute_anyUser(requireAdmin, children) ==
    IF loading THEN Spin
    ELSE IF user = Anon THEN Navigate("/login")
    ELSE children

ProtectedRoute(requireAdmin, children) ==
    IF loading THEN Spin
    ELSE IF user = Anon THEN Navigate("/login")
    ELSE IF requireAdmin /\ profile.role # "admin" THEN Navigate("/dashboard")
    ELSE children

Paths == {"/login", "/dashboard", "/admin", "/"}

\* <Routes>: /login; /dashboard and /admin inside the guarded layout, /admin inside
\* a second guard with requireAdmin; any other path goes to /dashboard. The login
\* page sends a user whose profile is loaded to /dashboard.
Routes(path) ==
    CASE path = "/login" ->
            IF user # Anon /\ profile # NoRow THEN Navigate("/dashboard") ELSE <<"Login">>
      [] path = "/dashboard" -> ProtectedRoute(FALSE, <<"Dashboard">>)
      [] path = "/admin" -> ProtectedRoute(FALSE, ProtectedRoute(TRUE, <<"Admin">>))
      [] OTHER -> Navigate("/dashboard")

\* the element on screen
Element == Routes(location)

\* the address bar or a menu click takes the browser to a path
Visit(path) ==
    /\ path \in Paths
    /\ path # location
    /\ location' = path
    /\ lastOp' = Answer("visit", user, {}, FALSE)
    /\ UNCHANGED <<clientVars, user, loading, initialSession, safetyTimeout, userIdRef,
                   loader, attempts>>
    /\ UNCHANGED <<calcVars, tableVars, pageVars, regVars, emailVars, dateVars>>

\* <Navigate> is rendered: the router replaces the location
Redirect ==
    /\ Element[1] = "Navigate"
    /\ location' = Element[2]
    /\ lastOp' = Answer("navigate", user, {}, FALSE)
    /\ UNCHANGED <<clientVars, user, loading, initialSession, safetyTimeout, userIdRef,
                   loader, attempts>>
    /\ UNCHANGED <<calcVars, tableVars, pageVars, regVars, emailVars, dateVars>>

-----------------------------------------------------------------------------
(* Specifications *)

\* the store after schema.sql ran and the first account was made admin (README)
StoreInit ==
    /\ auth_users = [u \in UserIds |->
                        IF u = 1 THEN nameToEmail(DisplayNames[1]) ELSE NoEmail]
    /\ user_meta = [u \in UserIds |-> IF u = 1 THEN DisplayNames[1] ELSE NoMeta]
    /\ profiles = [u \in UserIds |->
                      IF u = 1
                      THEN [handle_new_user(1, DisplayNames[1]) EXCEPT !.role = "admin"]
                      ELSE NoRow]
    /\ work_records = {}
    /\ nextRecordId = 1
    /\ project_presets =
          {[id |-> 1, project_name |-> ProjectAi, unit_price |-> 30, is_active |-> TRUE]}
    /\ nextPresetId = 2
    /\ employee_type_settings =
          {[type_name |-> "regular", daily_wage |-> 0, overtime_rate |-> 9]}
    /\ lastOp = Answer("init", Anon, {}, FALSE)

ClientInit ==
    /\ session = Anon
    /\ profile = NoRow
    /\ fetching = {}
    /\ presets = {}
    /\ employeeSettings = {}

\* the admin page and the edit modal closed, no call of register() begun
PageInit ==
    /\ selectedRowKeys = {}
    /\ confirmDialog = "closed"
    /\ editRecordId = 0
    /\ editPresets = {}
    /\ editEmployeeSettings = {}
    /\ editRequest = NoRequest
    /\ reg = [p \in RegIds |-> IdleReg]

\* nameToEmail not called
EmailIdle ==
    /\ name1 = <<>> /\ name2 = <<>>
    /\ email1 = <<>> /\ email2 = <<>>

\* the first day; no row yet, the dashboard not loaded
DatesInit ==
    /\ today = 1
    /\ record_date = [id \in RecordIds |-> 1]
    /\ dashRecords = {}

\* the provider mounted: no user, loading, the safety timer pending, the effect ran
\* once (userIdRef.current = null, setProfile(null)); the browser at /login
AuthMounted ==
    /\ user = Anon
    /\ loading = TRUE
    /\ initialSession = FALSE
    /\ safetyTimeout = TRUE
    /\ userIdRef = Anon
    /\ loader = NoLoader
    /\ attempts = 0
    /\ location = "/login"

OtherIdle == EmailIdle /\ DatesInit /\ AuthMounted

CalcIdle ==
    /\ records = <<>>
    /\ calc = "input"
    /\ totalSalary = 0
    /\ salaryDetails = <<>>
    /\ recordData = <<>>
    /\ summaryData = <<>>

CalcInit ==
    /\ StoreInit
    /\ ClientInit
    /\ PageInit
    /\ OtherIdle
    /\ records \in UNION {[1..n -> CalcRecords] : n \in 0..MaxRecords}
    /\ calc = "input"
    /\ totalSalary = 0
    /\ salaryDetails = <<>>
    /\ recordData = <<>>
    /\ summaryData = <<>>

CalcNext == AdminSalaryView \/ ExportRecordsToExcel

SpecSalary == CalcInit /\ [][CalcNext]_vars

Init == StoreInit /\ ClientInit /\ PageInit /\ CalcIdle /\ OtherIdle

\* the rows of one insert statement: one row or two
Batches(S) == [{1} -> S] \cup [{1, 2} -> S]

\* ---- table profiles under its policies ----

Next ==
    \/ \E u \in UserIds : SignUp(u)
    \/ \E uid \in Actors, userId \in UserIds, value \in Roles :
          UpdateProfile(uid, userId, "role", value)
    \/ \E uid \in Actors, userId \in UserIds, value \in EmployeeTypes :
          UpdateProfile(uid, userId, "employee_type", value)
    \/ \E uid \in Actors, userId \in UserIds : DeleteProfile(uid, userId)

Spec == Init /\ [][Next]_vars

\* ---- table work_records under its policies, with the roles changing ----

RecordsNext ==
    \/ \E u \in UserIds : SignUp(u)
    \/ \E uid \in Actors, userId \in UserIds, value \in Roles :
          UpdateProfile(uid, userId, "role", value)
    \/ \E uid \in Actors, owner \in UserIds : InsertRecords(uid, <<owner>>)
    \/ \E uid \in Actors, ids \in SUBSET RecordIds : DeleteRecords(uid, ids)
    \/ \E uid \in Actors, id \in RecordIds : UpdateRecord(uid, id, PlainUpdates)

SpecRecords == Init /\ [][RecordsNext]_vars

\* ---- the ways a work record is written: the add-record flow of the browser
\* ---- and the requests of other clients

AddNext ==
    \/ \E u \in UserIds : SignUp(u)
    \/ \E u \in UserIds : SignIn(u)
    \/ \E u \in UserIds, failed \in BOOLEAN : FetchProfileDone(u, failed)
    \/ Logout
    \/ \E projects \in Batches({ProjectAi}) : AddRecordSubmit(projects)
    \/ \E uid \in Actors, owners \in Batches(UserIds) : InsertRecords(uid, owners)

SpecAdd == Init /\ [][AddNext]_vars

\* ---- the bulk delete of the admin page ----

BulkNext ==
    \/ \E u \in UserIds : SignUp(u)
    \/ \E u \in UserIds : SignIn(u)
    \/ \E u \in UserIds : FetchProfileDone(u, FALSE)
    \/ \E owner \in UserIds : InsertRecords(owner, <<owner>>)
    \/ \E selectedUser \in UserIds, ids \in SUBSET RecordIds : SelectRows(selectedUser, ids)
    \/ handleBatchDelete
    \/ \E passwordOk \in BOOLEAN : ConfirmOk(passwordOk)
    \/ ConfirmCancel
    \/ BatchDeleteExecute

SpecBulk == Init /\ [][BulkNext]_vars

\* ---- the snapshots of the add-record and edit-record flows of one signed-in
\* ---- user, with the catalog and the user's employee type changing

MaxRateRows == 1

RatesNext ==
    \/ SignIn(1)
    \/ FetchProfileDone(1, FALSE)
    \/ \E value \in EmployeeTypes : UpdateProfile(1, 1, "employee_type", value)
    \/ \E checked \in BOOLEAN : SetPresetActive(1, 1, checked)
    \/ UpdateSetting(1, "regular", 200, 10)
    \/ FetchPresets
    \/ FetchEmployeeSettings
    \/ \E projectName \in {ProjectAi, AttendanceProject} :
          Cardinality(work_records) < MaxRateRows /\ AddRecordSubmit(<<projectName>>)
    \/ \E id \in RecordIds : OpenEdit(id)
    \/ EditFetchData
    \/ \E typed \in EditTyped : EditRecordSubmit(typed)

SpecRates == Init /\ [][RatesNext]_vars

\* ---- saved records while the admin changes the catalog and the employee types

SnapshotNext ==
    \/ \E owner \in UserIds : SignUp(owner)
    \/ \E owner \in UserIds : InsertRecords(owner, <<owner>>)
    \/ \E name \in PresetNames : InsertPreset(1, name, 80)
    \/ \E id \in PresetIds : UpdatePreset(1, id, ProjectAi, 80)
    \/ \E id \in PresetIds : SetPresetActive(1, id, FALSE)
    \/ \E id \in PresetIds : DeletePreset(1, id)
    \/ UpdateSetting(1, "regular", 200, 10)
    \/ \E userId \in UserIds, value \in EmployeeTypes :
          UpdateProfile(1, userId, "employee_type", value)

SpecSnapshot == Init /\ [][SnapshotNext]_vars

\* ---- registration: calls of register() side by side with sign-ups, inserts and
\* ---- renames sent by other clients, from a store without any account

RegisterInit ==
    /\ auth_users = [u \in UserIds |-> NoEmail]
    /\ user_meta = [u \in UserIds |-> NoMeta]
    /\ profiles = [u \in UserIds |-> NoRow]
    /\ work_records = {}
    /\ nextRecordId = 1
    /\ project_presets =
          {[id |-> 1, project_name |-> ProjectAi, unit_price |-> 30, is_active |-> TRUE]}
    /\ nextPresetId = 2
    /\ employee_type_settings =
          {[type_name |-> "regular", daily_wage |-> 0, overtime_rate |-> 9]}
    /\ lastOp = Answer("init", Anon, {}, FALSE)
    /\ ClientInit /\ PageInit /\ CalcIdle /\ OtherIdle

RegisterNext ==
    \/ \E p \in RegIds, name \in TypedNames, passwordOk \in BOOLEAN :
          \* the calls are numbered in the order they begin
          (\A q \in RegIds : q < p => reg[q].pc # "idle") /\ RegisterCall(p, name, passwordOk)
    \/ \E p \in RegIds, failed \in BOOLEAN : PreflightDone(p, failed)
    \/ \E p \in RegIds : SignUpDone(p)
    \/ \E display_name \in {<<"l">>, NoMeta} : DirectSignUp(<<"w">>, display_name)
    \/ \E uid \in UserIds, id \in UserIds :
          InsertProfile(uid, [id |-> id, name |-> <<"w">>, role |-> "admin",
                              employee_type |-> "regular"])
    \/ \E userId \in UserIds, value \in StoredNames :
          UpdateProfile(userId, userId, "name", value)

SpecRegister == RegisterInit /\ [][RegisterNext]_vars

\* ---- work records written with quantities chosen by the client ----

QuantitiesNext ==
    \/ \E u \in UserIds : SignUp(u)
    \/ \E uid \in Actors, owner \in UserIds, workload \in Quantities, overtime \in Quantities :
          InsertQuantities(uid, owner, workload, overtime)
    \/ \E uid \in Actors, ids \in SUBSET RecordIds : DeleteRecords(uid, ids)

SpecQuantities == Init /\ [][QuantitiesNext]_vars

\* ---- nameToEmail applied to every pair of names ----

EmailInit ==
    /\ StoreInit /\ ClientInit /\ PageInit /\ CalcIdle /\ DatesInit /\ AuthMounted
    /\ name1 \in EmailNames /\ name2 \in EmailNames
    /\ email1 = <<>> /\ email2 = <<>>

EmailNext == ApplyNameToEmail

SpecEmail == EmailInit /\ [][EmailNext]_vars

\* ---- the dashboard of a signed-in user over the days ----

DashboardNext ==
    \/ \E u \in UserIds : SignUp(u)
    \/ \E u \in UserIds : SignIn(u)
    \/ \E u \in UserIds : FetchProfileDone(u, FALSE)
    \/ \E date \in Days :
          session \in UserIds /\ date >= today /\ InsertDated(session, session, date)
    \/ DayPasses
    \/ fetchRecords
    \/ \E id \in RecordIds : handleDelete(id)

SpecDashboard == Init /\ [][DashboardNext]_vars

\* ---- the rate catalog under its policies, with the roles changing ----

CatalogNext ==
    \/ \E u \in UserIds : SignUp(u)
    \/ \E uid \in Actors, userId \in UserIds, value \in Roles :
          UpdateProfile(uid, userId, "role", value)
    \/ \E uid \in Actors, name \in PresetNames : InsertPreset(uid, name, 80)
    \/ \E uid \in Actors, id \in PresetIds, name \in PresetNames :
          UpdatePreset(uid, id, name, 80)
    \/ \E uid \in Actors, id \in PresetIds, checked \in BOOLEAN :
          SetPresetActive(uid, id, checked)
    \/ \E uid \in Actors, id \in PresetIds : DeletePreset(uid, id)
    \/ \E uid \in Actors : InsertSetting(uid, "regular", 200, 10)
    \/ \E uid \in Actors : UpdateSetting(uid, "regular", 200, 10)
    \/ \E uid \in Actors : DeleteSetting(uid, "regular")

SpecCatalog == Init /\ [][CatalogNext]_vars

-----------------------------------------------------------------------------
(* Properties of the pay calculator (checked under SpecSalary) *)

\* sum of g(rs[i]) over the positions i in I, whatever the order
RECURSIVE SumOver(_, _, _)
SumOver(g(_), rs, I) ==
    IF I = {} THEN 0
    ELSE LET i == CHOOSE x \in I : TRUE
         IN  g(rs[i]) + SumOver(g, rs, I \ {i})

PayOf(r) == r.unit_price_snapshot * r.workload + r.overtime * r.overtime_rate_snapshot
BasePayOf(r) == r.unit_price_snapshot * r.workload
OvertimePayOf(r) == r.overtime * r.overtime_rate_snapshot
WorkloadOf(r) == r.workload
OvertimeOf(r) == r.overtime
SubtotalOf(d) == d.totalSalary

Rearrangements(n) == {p \in [1..n -> 1..n] : \A i, j \in 1..n : p[i] = p[j] => i = j}

NonNegative(r) ==
    /\ r.workload >= 0
    /\ r.overtime >= 0
    /\ r.unit_price_snapshot >= 0
    /\ r.overtime_rate_snapshot >= 0

\* C1: for every record with non-negative workload, overtime and snapshots, the
\* pay written to the detail sheet is unit_price_snapshot*workload +
\* overtime*overtime_rate_snapshot, and it is never negative.
C1_RecordSalary ==
    calc = "exported" =>
        /\ Len(recordData) = Len(records)
        /\ \A i \in 1..Len(records) :
              NonNegative(records[i]) =>
                  /\ recordData[i] = PayOf(records[i])
                  /\ recordData[i] >= 0

\* the example of the specification: 30 x 5 + 2 x 9 = 168
C1_Witness ==
    /\ calc = "exported"
    /\ \E i \in 1..Len(records) :
          /\ records[i].unit_price_snapshot = 30
          /\ records[i].workload = 5
          /\ records[i].overtime = 2
          /\ records[i].overtime_rate_snapshot = 9
          /\ recordData[i] = 168

\* C2: the total is the sum of the record pays over the positions of the
\* collection (equal records at different positions each count), and every
\* rearrangement of the collection has the same total.
C2_TotalIsSum ==
    calc # "input" =>
        /\ totalSalary = SumOver(PayOf, records, 1..Len(records))
        /\ \A p \in Rearrangements(Len(records)) :
              calculateTotalSalary([i \in 1..Len(records) |-> records[p[i]]]) = totalSalary

\* three records, two of them equal, with a non-zero total
C2_Witness ==
    /\ calc = "computed"
    /\ Len(records) = 3
    /\ records[1] = records[3]
    /\ records[2] # records[1]
    /\ PayOf(records[1]) > 0
    /\ PayOf(records[2]) > 0
    /\ totalSalary = 2 * PayOf(records[1]) + PayOf(records[2])

\* C3: the group subtotals add up to the total of the collection, and in the
\* summary sheet the grand-total row equals the sum of the subtotal rows.
C3_AggregationConsistency ==
    /\ calc # "input" =>
          SumOver(SubtotalOf, salaryDetails, 1..Len(salaryDetails)) = totalSalary
    /\ calc = "exported" =>
          LET n == Len(summaryData)
          IN  /\ n = Len(salaryDetails) + 1
              /\ summaryData[n].totalSalary = SumOver(SubtotalOf, summaryData, 1..(n - 1))
              /\ summaryData[n].totalSalary = totalSalary

\* two groups whose records alternate, both with overtime pay, exported
C3_Witness ==
    /\ calc = "exported"
    /\ Len(records) = 3
    /\ records[1].project_name = records[3].project_name
    /\ records[2].project_name # records[1].project_name
    /\ \A i \in 1..3 : OvertimePayOf(records[i]) > 0 /\ BasePayOf(records[i]) > 0
    /\ Len(salaryDetails) = 2
    /\ summaryData[3].totalSalary = salaryDetails[1].totalSalary + salaryDetails[2].totalSalary

\* C4: one group per distinct project_name (names differing by case are
\* distinct), every record in exactly one group, and each group's count and
\* sums taken over exactly the records of that name, subtotal = base + overtime.
C4_Grouping ==
    calc # "input" =>
        LET names == {records[i].project_name : i \in 1..Len(records)}
            members(n) == {i \in 1..Len(records) : records[i].project_name = n}
        IN  /\ {salaryDetails[k].projectName : k \in 1..Len(salaryDetails)} = names
            /\ Len(salaryDetails) = Cardinality(names)
            /\ \A k \in 1..Len(salaryDetails) :
                  LET d == salaryDetails[k]
                      I == members(d.projectName)
                  IN  /\ d.recordCount = Cardinality(I)
                      /\ d.totalWorkload = SumOver(WorkloadOf, records, I)
                      /\ d.totalOvertime = SumOver(OvertimeOf, records, I)
                      /\ d.totalBasePay = SumOver(BasePayOf, records, I)
                      /\ d.totalOvertimePay = SumOver(OvertimePayOf, records, I)
                      /\ d.totalSalary = d.totalBasePay + d.totalOvertimePay

\* records named "Ai" and "ai" end in two groups
C4_Witness ==
    /\ calc = "computed"
    /\ Len(records) = 3
    /\ records[1].project_name = "Ai"
    /\ records[2].project_name = "ai"
    /\ records[3].project_name = "Ai"
    /\ Len(salaryDetails) = 2
    /\ salaryDetails[1].recordCount = 2
    /\ salaryDetails[2].recordCount = 1
    /\ salaryDetails[1].totalWorkload > 0

\* C5: for the empty collection the breakdown is empty and the total is 0.
C5_Empty ==
    (calc = "computed" /\ records = <<>>) =>
        /\ salaryDetails = <<>>
        /\ totalSalary = 0

C5_Witness ==
    /\ calc = "computed"
    /\ records = <<>>
    /\ Len(salaryDetails) = 0

-----------------------------------------------------------------------------
(* Properties of the row-level policies
   (checked under SpecRecords, SpecCatalog, Spec, SpecAdd) *)

\* every identity a request can carry, registered or not, and no identity
Requesters == UserIds \cup {Anon}

\* the role the profiles table holds for the requester
RoleOf(uid) == IF uid \in UserIds THEN profiles[uid].role ELSE ""

CatalogUnchanged ==
    /\ project_presets' = project_presets
    /\ employee_type_settings' = employee_type_settings

C7_NonAdminDenied ==
    RoleOf(lastOp'.uid) # "admin" =>
       /\ CatalogUnchanged
       /\ lastOp'.op \in {"insert_preset", "insert_setting"} => lastOp'.error

C7_AdminChangeApplied ==
    /\ lastOp'.op = "set_preset_active" =>
          \A id \in PresetIds, checked \in BOOLEAN :
             SetPresetActive(lastOp'.uid, id, checked) =>
                \E p \in project_presets' : p.id = id /\ p.is_active = checked
    /\ lastOp'.op = "delete_preset" =>
          \A id \in PresetIds :
             DeletePreset(lastOp'.uid, id) => \A p \in project_presets' : p.id # id
    /\ lastOp'.op = "update_setting" =>
          \A type \in EmployeeTypes :
             UpdateSetting(lastOp'.uid, type, 200, 10) =>
                \E e \in employee_type_settings' :
                   e.type_name = type /\ e.daily_wage = 200 /\ e.overtime_rate = 10
    /\ lastOp'.op = "delete_setting" =>
          \A type \in EmployeeTypes :
             DeleteSetting(lastOp'.uid, type) =>
                \A e \in employee_type_settings' : e.type_name # type

PresetWritten(id, name, price) ==
    \E p \in project_presets' : p.id = id /\ p.project_name = name /\ p.unit_price = price

SettingWritten(type, wage, rate) ==
    \E e \in employee_type_settings' :
       e.type_name = type /\ e.daily_wage = wage /\ e.overtime_rate = rate

C7_CatalogAdminOnly_asStated ==
    [][/\ C7_NonAdminDenied
       /\ RoleOf(lastOp'.uid) = "admin" =>
             /\ C7_AdminChangeApplied
             /\ lastOp'.op = "insert_preset" =>
                   \A name \in PresetNames :
                      InsertPreset(lastOp'.uid, name, 80) =>
                         PresetWritten(nextPresetId, name, 80)
             /\ lastOp'.op = "update_preset" =>
                   \A id \in PresetIds, name \in PresetNames :
                      UpdatePreset(lastOp'.uid, id, name, 80) => PresetWritten(id, name, 80)
             /\ lastOp'.op = "insert_setting" =>
                   \A type \in EmployeeTypes :
                      InsertSetting(lastOp'.uid, type, 200, 10) =>
                         SettingWritten(type, 200, 10)]_vars

\* C7: a catalog request of a requester whose role is not admin leaves both catalog
\* tables unchanged (an insert is answered with an error); the same request of an
\* admin is applied, unless it would give two rows the same project_name or the
\* same type_name: then it is answered with an error and the tables are unchanged.
C7_CatalogAdminOnly ==
    [][/\ C7_NonAdminDenied
       /\ RoleOf(lastOp'.uid) = "admin" =>
             /\ C7_AdminChangeApplied
             /\ lastOp'.op = "insert_preset" =>
                   \A name \in PresetNames :
                      InsertPreset(lastOp'.uid, name, 80) =>
                         IF \E p \in project_presets : p.project_name = name
                         THEN CatalogUnchanged /\ lastOp'.error
                         ELSE PresetWritten(nextPresetId, name, 80) /\ ~lastOp'.error
             /\ lastOp'.op = "update_preset" =>
                   \A id \in PresetIds, name \in PresetNames :
                      UpdatePreset(lastOp'.uid, id, name, 80) =>
                         IF \E p \in project_presets : p.id # id /\ p.project_name = name
                         THEN CatalogUnchanged /\ lastOp'.error
                         ELSE PresetWritten(id, name, 80) /\ ~lastOp'.error
             /\ lastOp'.op = "insert_setting" =>
                   \A type \in EmployeeTypes :
                      InsertSetting(lastOp'.uid, type, 200, 10) =>
                         IF \E e \in employee_type_settings : e.type_name = type
                         THEN CatalogUnchanged /\ lastOp'.error
                         ELSE SettingWritten(type, 200, 10) /\ ~lastOp'.error]_vars

\* an admin's insert of a preset has been answered with an error (the name was
\* taken), after a preset with the new price was written by an admin
C7_Witness ==
    /\ lastOp.op = "insert_preset"
    /\ lastOp.error
    /\ RoleOf(lastOp.uid) = "admin"
    /\ \E p \in project_presets : p.unit_price = 80

\* C8: the role and the employee_type of a profile change only in an update whose
\* requester has role admin at that moment; an update a non-admin owner sends for
\* their own row changes neither field.
C8_NoSelfEscalation ==
    [][\A u \in UserIds :
          (/\ profiles[u] # NoRow
           /\ \/ profiles'[u].role # profiles[u].role
              \/ profiles'[u].employee_type # profiles[u].employee_type)
             => lastOp'.op = "update_profile" /\ RoleOf(lastOp'.uid) = "admin"]_vars

C10_InsertOwn ==
    [][/\ \A r \in work_records' \ work_records :
             /\ lastOp'.op \in {"insert_records", "add_record"}
             /\ r.user_id = lastOp'.uid
             /\ lastOp'.ids = {lastOp'.uid}
       /\ (lastOp'.op = "insert_records" /\ lastOp'.ids # {lastOp'.uid}) =>
             work_records' = work_records /\ lastOp'.error
       /\ \A r \in work_records, q \in work_records' :
             q.id = r.id => q.user_id = r.user_id
       /\ lastOp'.op \in {"add_record", "add_record_no_profile"} =>
             \A projects \in Batches({ProjectAi}) :
                AddRecordSubmit(projects) =>
                   IF profile = NoRow
                   THEN work_records' = work_records /\ lastOp'.op = "add_record_no_profile"
                   ELSE \A r \in work_records' \ work_records :
                           r.user_id = profile.id /\ r.user_id = session]_vars

\* the form was submitted while the loaded profile was that of another identity
\* than the session's, and was refused; a row written earlier is in the table
C10_Witness ==
    /\ lastOp.op = "add_record"
    /\ lastOp.error
    /\ profile # NoRow
    /\ profile.id # session
    /\ session # Anon
    /\ work_records # {}

\* C11: an update of a work record that its owner or an admin sends is applied (the
\* row takes the new values), and an update anyone else sends leaves the row
\* unchanged.
C11_UpdatePolicy ==
    [][lastOp'.op = "update_record" =>
          \A r \in work_records :
             r.id \in lastOp'.ids =>
                IF r.user_id = lastOp'.uid \/ RoleOf(lastOp'.uid) = "admin"
                THEN ApplyUpdates(r, PlainUpdates) \in work_records'
                ELSE r \in work_records']_vars

\* C12: every write is applied in full or leaves the store unchanged: a bulk delete
\* naming at least one row the requester may not delete (a row the acting admin
\* owns) deletes none of the rows it names.
C12_AtomicRejection ==
    [][lastOp'.op = "delete_records" =>
          \/ work_records' = work_records
          \/ \A r \in work_records : r.id \in lastOp'.ids => r \notin work_records']_vars

\* C13: the bulk delete of the admin page sends its delete request only after the
\* password check for the loaded admin profile succeeded in the same confirmation
\* dialog; when the check fails, no profile is loaded or no row is selected, no
\* delete request is sent and work_records is unchanged.
C13_ConfirmationGate ==
    [][/\ lastOp'.op = "batch_delete" =>
             /\ confirmDialog = "reauthenticated"
             /\ selectedRowKeys # {}
             /\ lastOp'.ids = selectedRowKeys
       /\ (confirmDialog' = "reauthenticated" /\ confirmDialog # "reauthenticated") =>
             /\ confirmDialog = "open"
             /\ profile # NoRow
             /\ selectedRowKeys # {}
             /\ lastOp'.op = "reauth"
             /\ ~lastOp'.error
             /\ auth_users[lastOp'.uid] = nameToEmail(profile.name)
       /\ confirmDialog = "reauthenticated" =>
             confirmDialog' = "reauthenticated" \/ lastOp'.op = "batch_delete"
       /\ \/ lastOp'.op = "reauth" /\ lastOp'.error
          \/ lastOp'.op \in {"batch_delete_no_profile", "batch_delete_none_selected",
                             "batch_delete_cancel"}
          => work_records' = work_records /\ confirmDialog' # "reauthenticated"
       /\ (\E r \in work_records : r \notin work_records') => lastOp'.op = "batch_delete"]_vars

\* the delete request of a bulk delete was sent and removed a row, by an admin who
\* also owns a row
C13_Witness ==
    /\ lastOp.op = "batch_delete"
    /\ Cardinality(work_records) < nextRecordId - 1
    /\ \E r \in work_records : r.user_id = lastOp.uid

-----------------------------------------------------------------------------
(* Properties of the snapshots written on save (checked under SpecRates) *)

\* price is what a list of presets and a list of settings give for a project name
\* and an employee type
PriceResolved(price, presetList, settings, type, name) ==
    IF name = AttendanceProject
    THEN \/ \E e \in settings : e.type_name = type /\ price = e.daily_wage
         \/ price = 0 /\ \A e \in settings : e.type_name # type
    ELSE \/ \E q \in presetList : q.project_name = name /\ price = q.unit_price
         \/ price = 0 /\ \A q \in presetList : q.project_name # name

\* rate is what a list of settings gives for an employee type
RateResolved(rate, settings, type) ==
    \/ \E e \in settings : e.type_name = type /\ rate = e.overtime_rate
    \/ rate = 9 /\ \A e \in settings : e.type_name # type

\* what the add form and the edit form hold is what they would load now
AddListsCurrent ==
    /\ presets = {q \in project_presets : q.is_active}
    /\ employeeSettings = employee_type_settings
    /\ session \in UserIds /\ profile = profiles[session]

EditListsCurrent ==
    /\ editPresets = project_presets
    /\ editEmployeeSettings = employee_type_settings
    /\ session \in UserIds /\ profile = profiles[session]

Saved == work_records' \ work_records

C17_EditWrites ==
    [][lastOp'.op = "edit_record" =>
          /\ editRequest'.id = editRecordId
          /\ PriceResolved(editRequest'.updates.unit_price_snapshot, editPresets,
                           editEmployeeSettings, profile.employee_type,
                           editRequest'.updates.project_name)
          /\ RateResolved(editRequest'.updates.overtime_rate_snapshot,
                          editEmployeeSettings, profile.employee_type)
          /\ \A r \in work_records :
                IF r.id = editRecordId
                THEN ApplyUpdates(r, editRequest'.updates) \in work_records'
                ELSE r \in work_records']_vars

-----------------------------------------------------------------------------
(* Properties of saved records under catalog changes (checked under SpecSnapshot) *)

CatalogOps ==
    {"insert_preset", "update_preset", "set_preset_active", "delete_preset",
     "insert_setting", "update_setting", "delete_setting"}

\* C16: creating, updating, deactivating or deleting a preset, updating a daily
\* wage or overtime rate, and changing a user's employee type leave the unit price
\* snapshot, overtime rate snapshot, workload, overtime and computed pay of every
\* existing work record as they were
C16_SnapshotImmunity ==
    [][lastOp'.op \in CatalogOps \cup {"update_profile"} =>
          \A r \in work_records : \E r2 \in work_records' :
              /\ r2.id = r.id
              /\ r2.unit_price_snapshot = r.unit_price_snapshot
              /\ r2.overtime_rate_snapshot = r.overtime_rate_snapshot
              /\ r2.workload = r.workload
              /\ r2.overtime = r.overtime
              /\ calculateRecordSalary(r2) = calculateRecordSalary(r)]_vars

\* the preset of a saved record's project has another price than the record took,
\* the rate of its owner's type has changed, and its owner has another type
C16_Witness ==
    /\ lastOp.op \in CatalogOps \cup {"update_profile"} /\ ~lastOp.error
    /\ \E r \in work_records :
          /\ \E q \in project_presets :
                q.project_name = r.project_name /\ q.unit_price # r.unit_price_snapshot
          /\ \E e \in employee_type_settings :
                e.overtime_rate # r.overtime_rate_snapshot
          /\ profiles[r.user_id].employee_type = "manager"

-----------------------------------------------------------------------------
(* Properties of registration (checked under SpecRegister) *)

\* t is name without the white space at its two ends
IsTrimOf(t, name) ==
    \E i \in 0..Len(name) : \E j \in i..Len(name) :
        /\ t = SubSeq(name, i + 1, j)
        /\ \A k \in 1..Len(name) : (k <= i \/ k > j) => name[k] \in WhiteSpace
        /\ t = <<>> \/ (t[1] \notin WhiteSpace /\ t[Len(t)] \notin WhiteSpace)

\* C18: when the read of register() sees a profile whose name is the trimmed form
\* of the name given, the call ends in an error and never sends signUp; signUp is
\* sent only after the read
C18_Preflight ==
    [][\A p \in RegIds :
          /\ lastOp'.op = "register_preflight" /\ p \in lastOp'.ids /\ ~lastOp'.error
             /\ (\E u \in UserIds : profiles[u] # NoRow
                                    /\ IsTrimOf(profiles[u].name, reg[p].name))
             => reg'[p].pc = "error_exists" /\ auth_users' = auth_users
                /\ profiles' = profiles
          /\ lastOp'.op = "register_sign_up" /\ p \in lastOp'.ids
             => reg[p].pc = "signup" /\ ~reg[p].existing
          /\ reg'[p].pc = "signup" /\ reg[p].pc # "signup"
             => reg[p].pc = "preflight" /\ lastOp'.op = "register_preflight"
          /\ reg'[p].pc \in {"registered", "error_signup"} /\ reg[p].pc # reg'[p].pc
             => reg[p].pc = "signup" /\ lastOp'.op = "register_sign_up"
          /\ reg[p].pc = "error_exists" => reg'[p] = reg[p]]_vars

\* a call with blanks before the name of an existing profile ended at the read
C18_Witness ==
    \E p \in RegIds :
        /\ reg[p].pc = "error_exists"
        /\ reg[p].name = <<" ", "l">>
        /\ \E u \in UserIds : profiles[u] # NoRow /\ profiles[u].name = <<"l">>
        /\ lastOp = Answer("register_preflight", Anon, {p}, FALSE)

\* C19: no two profiles have the same name, and of two calls of register() whose
\* names have the same trimmed form at most one ends with an identity and a profile
C19_NameUnique ==
    /\ \A u, v \in UserIds :
          u # v /\ profiles[u] # NoRow /\ profiles[v] # NoRow
          => profiles[u].name # profiles[v].name
    /\ \A p, q \in RegIds :
          /\ p # q
          /\ reg[p].pc = "registered" /\ reg[q].pc = "registered"
          => ~ \E t \in StoredNames : IsTrimOf(t, reg[p].name) /\ IsTrimOf(t, reg[q].name)

\* two calls with the same trimmed name both passed the read; one made its
\* identity and profile, the other was refused by signUp
C19_Witness ==
    \E p, q \in RegIds :
        /\ reg[p].pc = "registered" /\ reg[q].pc = "error_signup"
        /\ ~reg[p].existing /\ ~reg[q].existing
        /\ reg[p].name # reg[q].name
        /\ \E t \in StoredNames : IsTrimOf(t, reg[p].name) /\ IsTrimOf(t, reg[q].name)
        /\ auth_users[reg[p].user] # NoEmail /\ profiles[reg[p].user].name = <<"l">>
        /\ Cardinality({u \in UserIds : profiles[u] # NoRow}) = 1

\* C20: an identity has a profile and a profile an identity, under the same id;
\* the profile made with an identity has role 'user', employee type 'regular' and
\* the display_name of the sign-up metadata, 'unnamed' without one; no profile is
\* made with role admin
C20_ProfileMaterialization ==
    /\ [](\A u \in UserIds :
             /\ auth_users[u] # NoEmail <=> profiles[u] # NoRow
             /\ profiles[u] # NoRow => profiles[u].id = u)
    /\ [][\A u \in UserIds :
             /\ auth_users[u] = NoEmail /\ auth_users'[u] # NoEmail
                => profiles'[u] =
                     [id |-> u,
                      name |-> IF user_meta'[u] = NoMeta
                               THEN <<"u", "n", "n", "a", "m", "e", "d">>
                               ELSE user_meta'[u],
                      role |-> "user", employee_type |-> "regular"]
             /\ profiles[u] = NoRow /\ profiles'[u] # NoRow
                => profiles'[u].role = "user" /\ auth_users[u] = NoEmail]_vars

\* a sign-up without display_name made the profile 'unnamed'
C20_Witness ==
    /\ lastOp.op = "sign_up" /\ ~lastOp.error
    /\ user_meta[lastOp.uid] = NoMeta
    /\ auth_users[lastOp.uid] # NoEmail
    /\ profiles[lastOp.uid].name = Unnamed /\ profiles[lastOp.uid].role = "user"

-----------------------------------------------------------------------------
(* Properties of the stored quantities (checked under SpecQuantities) *)

\* C22: every stored work record has workload >= 0 and overtime >= 0, a write
\* with a negative quantity being refused
C22_NonNegative ==
    \A r \in work_records : r.workload >= 0 /\ r.overtime >= 0

-----------------------------------------------------------------------------
(* Properties of nameToEmail (checked under SpecEmail) *)

LowerHex == {"0", "1", "2", "3", "4", "5", "6", "7", "8", "9", "a", "b", "c", "d", "e", "f"}

\* C23: two names have the same pseudo-email exactly when their trimmed forms
\* are equal, a name has the pseudo-email of its trimmed form, and every
\* pseudo-email is 'u', lower-case hex digits, '@work.local'
C23_NameToEmail ==
    email1 # <<>> =>
       /\ email1 = email2 <=>
             \E t \in EmailNames : IsTrimOf(t, name1) /\ IsTrimOf(t, name2)
       /\ \A t \in EmailNames : IsTrimOf(t, name1) => nameToEmail(t) = email1
       /\ email1[1] = "u"
       /\ Len(email1) >= 12
       /\ \A i \in 2..(Len(email1) - 11) : email1[i] \in LowerHex
       /\ SubSeq(email1, Len(email1) - 10, Len(email1)) =
             <<"@", "w", "o", "r", "k", ".", "l", "o", "c", "a", "l">>

\* two names that differ by the blanks around them got the same pseudo-email
C23_Witness ==
    /\ email1 # <<>>
    /\ name1 # name2
    /\ \E t \in EmailNames : t # <<>> /\ IsTrimOf(t, name1) /\ IsTrimOf(t, name2)
    /\ email1 = email2

-----------------------------------------------------------------------------
(* Snapshots against the catalog of the store (checked under SpecRates) *)

\* C24: the unit price and the overtime rate written by an add or sent by an edit
\* are those the catalog in the store gives at the moment of the write, whatever
\* the forms loaded before
C24_SnapshotCurrency ==
    [][/\ lastOp'.op = "add_record" =>
            \A r \in Saved :
                /\ \/ PriceResolved(r.unit_price_snapshot, project_presets,
                                    employee_type_settings,
                                    profiles[r.user_id].employee_type, r.project_name)
                   \/ PriceResolved(r.unit_price_snapshot,
                                    {q \in project_presets : q.is_active},
                                    employee_type_settings,
                                    profiles[r.user_id].employee_type, r.project_name)
                /\ RateResolved(r.overtime_rate_snapshot, employee_type_settings,
                                profiles[r.user_id].employee_type)
       /\ lastOp'.op = "edit_record" /\ session \in UserIds =>
            /\ PriceResolved(editRequest'.updates.unit_price_snapshot, project_presets,
                             employee_type_settings, profiles[session].employee_type,
                             editRequest'.updates.project_name)
            /\ RateResolved(editRequest'.updates.overtime_rate_snapshot,
                            employee_type_settings,
                            profiles[session].employee_type)]_vars

-----------------------------------------------------------------------------
(* Properties of the delete buttons (checked under SpecDashboard) *)

\* C26: when the single delete of the dashboard or the bulk delete of the admin
\* page reports success, no targeted record is in the store afterwards
C26_SuccessImpliesEffect ==
    [][lastOp'.op \in {"dashboard_delete", "batch_delete"} /\ ~lastOp'.error =>
          \A r \in work_records' : r.id \notin lastOp'.ids]_vars

\* C27: a user who is not admin and deletes an own record of the current day from
\* the dashboard has it removed; the dashboard offers no delete for other days
C27_OwnerSameDayDelete ==
    [][lastOp'.op = "dashboard_delete" =>
          \A id \in lastOp'.ids :
              /\ record_date[id] = today
              /\ \A r \in work_records :
                    r.id = id /\ r.user_id = lastOp'.uid /\ RoleOf(lastOp'.uid) # "admin"
                    => r \notin work_records']_vars

-----------------------------------------------------------------------------
(* The auth context of one browser *)

\* a visitor without a stored session, or the first account's session in storage
AuthInit ==
    /\ StoreInit /\ PageInit /\ CalcIdle /\ OtherIdle
    /\ session \in {Anon, 1}
    /\ profile = NoRow
    /\ fetching = {}
    /\ presets = {}
    /\ employeeSettings = {}

AuthNext ==
    \/ SignUp(2)
    \/ OnInitialSession
    \/ OnAuthStateChange
    \/ SafetyTimeout
    \/ \E u \in UserIds : login(u)
    \/ \E signedOut \in BOOLEAN : logout(signedOut)
    \/ load
    \/ \E failed \in BOOLEAN : loadReturns(failed)
    \/ \E u \in UserIds, failed \in BOOLEAN : fetchProfileReturns(u, failed)
    \/ \E path \in Paths : Visit(path)
    \/ Redirect

SpecAuth == AuthInit /\ [][AuthNext]_vars

\* the safety timer is a browser timer: once set it fires
SpecAuthLive == SpecAuth /\ WF_vars(SafetyTimeout)

\* C21: from the moment a user is signed in until that user signs out the loader
\* issues at most four profile fetches, and the fetch after the first comes 1.5 s,
\* 3 s, 4.5 s after the one before it, however auth-state events interleave.
C21_BoundedBootstrap ==
    [][lastOp'.op = "load" =>
          /\ attempts' <= LoadAttempts
          /\ attempts' > 1 => loader'.delay = retryDelay(attempts' - 1)]_vars

\* C25: in every state of the auth context a profile that is not null belongs to
\* the user that is not null: no fetch that returns after logout, or after the user
\* changed, installs a profile.
C25_SessionConsistency ==
    profile # NoRow => user # Anon /\ profile.id = user

\* C29: once the provider is mounted, `loading` becomes false and stays false,
\* whether or not INITIAL_SESSION is delivered or a profile is loaded; it never
\* returns to true.
C29_LoadingEnds ==
    /\ <>[](~loading)
    /\ [][~loading => ~loading']_vars

\* the safety timer ended `loading`: no INITIAL_SESSION delivered, no profile loaded
C29_Witness ==
    /\ ~loading
    /\ ~initialSession
    /\ ~safetyTimeout
    /\ profile = NoRow

-----------------------------------------------------------------------------
(* The admin-only writes of one browser while the roles change in the store *)

\* The browser signs in once and caches its profile; any client changes a role (the
\* Select of the user table sends a value that differs from the row's); the
\* browser sends the admin-only writes with its session, whatever it cached.
AdminNext ==
    \/ SignUp(2)
    \/ \E u \in UserIds : session = Anon /\ SignIn(u)
    \/ \E u \in UserIds : FetchProfileDone(u, FALSE)
    \/ \E uid \in Actors, userId \in Registered, value \in Roles :
          profiles[userId].role # value /\ UpdateProfile(uid, userId, "role", value)
    \/ session # Anon /\ InsertPreset(session, ProjectAiLower, 80)
    \/ \E id \in PresetIds : session # Anon /\ UpdatePreset(session, id, ProjectAi, 80)
    \/ \E id \in PresetIds : session # Anon /\ DeletePreset(session, id)
    \/ \E uid \in Registered :
          Cardinality(work_records) < MaxRateRows /\ InsertRecords(uid, <<uid>>)
    \/ \E id \in RecordIds : session # Anon /\ DeleteRecords(session, {id})

SpecAdmin == Init /\ [][AdminNext]_vars

\* the writes the policies reserve to an admin
AdminOnlyOps ==
    {"insert_preset", "update_preset", "delete_preset", "delete_records",
     "update_profile"}

=============================================================================
